---- MODULE Spec2Model ----
(***************************************************************************)
(* A model of pygame_maker's embedded scripting language engine            *)
(* (src/pygame_maker/scripts/language_engine.py): the postfix builder      *)
(* driven by the grammar's parse actions, the constant folder, the code    *)
(* generator, the execution of the generated code, and the code block      *)
(* registry of LanguageEngine.                                             *)
(*                                                                         *)
(* Python values are records [t, n, d]: a type tag and an exact rational   *)
(* n/d (d > 0, lowest terms).  Floats are idealised as rationals.          *)
(***************************************************************************)
EXTENDS Integers, Sequences, FiniteSets, TLC

\* ------------------------------------------------------------------------
\* Bounds of the model
\* ------------------------------------------------------------------------
\* numeric literals of the folded statements range over 0 .. MaxLit
MaxLit == 4
\* magnitudes above MagCap are outside the modelled arithmetic
MagCap == 4000

\* ------------------------------------------------------------------------
\* Python numbers
\* ------------------------------------------------------------------------
Abs(x) == IF x < 0 THEN -x ELSE x

RECURSIVE Gcd(_, _)
Gcd(a, b) == IF b = 0 THEN a ELSE Gcd(b, a % b)

\* floor division and truncation toward zero on integers
FloorDiv(a, b) == IF b > 0 THEN a \div b ELSE (-a) \div (-b)
TruncDiv(a, b) == IF (a >= 0) = (b > 0) THEN Abs(a) \div Abs(b) ELSE -(Abs(a) \div Abs(b))

PyInt(n) == [t |-> "int", n |-> n, d |-> 1]
PyBool(b) == [t |-> "bool", n |-> (IF b THEN 1 ELSE 0), d |-> 1]
PyFloat(n, d) ==
    LET g == Gcd(Abs(n), Abs(d))
        s == IF d < 0 THEN -1 ELSE 1
    IN  [t |-> "float", n |-> (s * n) \div g, d |-> (s * d) \div g]
\* an exception raised while evaluating; n and d carry no meaning
PyErr(name) == [t |-> name, n |-> 0, d |-> 1]
IsErr(v) == v.t \notin {"int", "float", "bool"}
\* outside the modelled arithmetic: fractional exponent or magnitude > MagCap
Unmodelled == PyErr("Unmodelled")

\* Python's == on numbers compares the numeric value, not the type
NumEq(a, b) == a.n * b.d = b.n * a.d
NumLt(a, b) == a.n * b.d < b.n * a.d
Truthy(v) == v.n # 0

TooBig(v) == v.n > MagCap \/ v.n < -MagCap \/ v.d > MagCap
Capped(v) == IF TooBig(v) THEN Unmodelled ELSE v

\* result of an arithmetic operator: int when both operands are int (or
\* bool), float otherwise
Arith(a, b, n, d) ==
    IF a.t = "float" \/ b.t = "float" THEN Capped(PyFloat(n, d))
    ELSE Capped(PyInt(n \div d))

\* b^e for a natural exponent, saturating just above MagCap
RECURSIVE PowNat(_, _)
PowNat(b, e) ==
    IF e = 0 THEN 1
    ELSE LET r == PowNat(b, e - 1)
         IN  IF Abs(r) > MagCap THEN r ELSE r * b

\* math.pow(a, b): always a float; ValueError for 0 to a negative power
PyPow(a, b) ==
    IF b.d # 1 \/ Abs(b.n) > 12 THEN Unmodelled
    ELSE IF a.n = 0 /\ b.n < 0 THEN PyErr("ValueError")
    ELSE LET pn == PowNat(a.n, Abs(b.n))
             pd == PowNat(a.d, Abs(b.n))
         IN  IF Abs(pn) > MagCap \/ pd > MagCap THEN Unmodelled
             ELSE IF b.n >= 0 THEN Capped(PyFloat(pn, pd))
             ELSE Capped(PyFloat(pd, pn))

\* operator.mod: the result takes the sign of the divisor
PyMod(a, b) ==
    IF b.n = 0 THEN PyErr("ZeroDivisionError")
    ELSE LET x == a.n * b.d
             y == b.n * a.d
             r == x - y * FloorDiv(x, y)
         IN  Arith(a, b, r, a.d * b.d)

\* operator.truediv: always a float
PyTrueDiv(a, b) ==
    IF b.n = 0 THEN PyErr("ZeroDivisionError")
    ELSE Capped(PyFloat(a.n * b.d, a.d * b.n))

\* the Python functions the language's operators are replaced by
PyCall(op, args) ==
    LET a == args[1]
        b == args[Len(args)]
        exact == a.d = 1 /\ b.d = 1 /\ op \notin {"operator.add", "operator.sub", "operator.mul",
                                                  "operator.truediv", "operator.mod", "math.pow"}
    IN  IF (TooBig(a) \/ TooBig(b)) /\ ~exact THEN Unmodelled ELSE
        CASE op = "operator.add" -> Arith(a, b, a.n * b.d + b.n * a.d, a.d * b.d)
          [] op = "operator.sub" -> Arith(a, b, a.n * b.d - b.n * a.d, a.d * b.d)
          [] op = "operator.mul" -> Arith(a, b, a.n * b.n, a.d * b.d)
          [] op = "operator.truediv" -> PyTrueDiv(a, b)
          [] op = "operator.mod" -> PyMod(a, b)
          [] op = "math.pow" -> PyPow(a, b)
          [] op = "operator.not_" -> PyBool(~Truthy(a))
          [] op = "operator.lt" -> PyBool(NumLt(a, b))
          [] op = "operator.le" -> PyBool(~NumLt(b, a))
          [] op = "operator.gt" -> PyBool(NumLt(b, a))
          [] op = "operator.ge" -> PyBool(~NumLt(a, b))
          [] op = "operator.eq" -> PyBool(NumEq(a, b))
          [] op = "operator.ne" -> PyBool(~NumEq(a, b))

\* int(x) truncates toward zero; float(x) keeps the value
ToInt(v) == PyInt(TruncDiv(v.n, v.d))
ToFloat(v) == PyFloat(v.n, v.d)

\* ------------------------------------------------------------------------
\* Postfix tokens: a number or a string
\* ------------------------------------------------------------------------
NumTok(v) == [k |-> "num", v |-> v, s |-> ""]
StrTok(s) == [k |-> "str", v |-> PyInt(0), s |-> s]
IsNum(tok) == tok.k = "num"

\* CodeBlock.OPERATOR_FUNCTIONS: operator name -> number of arguments
OPERATOR_FUNCTIONS ==
    [op \in {"operator.add", "operator.sub", "operator.mul", "operator.truediv",
             "operator.mod", "operator.lt", "operator.le", "operator.gt",
             "operator.ge", "operator.eq", "operator.ne", "math.pow"} |-> 2]
    @@ [op \in {"operator.not_"} |-> 1]
OperatorNames == DOMAIN OPERATOR_FUNCTIONS

CONDITIONALS == {"operator.lt", "operator.le", "operator.gt", "operator.ge",
                 "operator.eq", "operator.ne"}

\* ------------------------------------------------------------------------
\* Constant folder
\* ------------------------------------------------------------------------
\* str(a) for an argument of executeOperation, evaluated again by eval():
\* exact for an int; the literals of the modelled sources are ints
StrEval(v) == v

\* CodeBlock.executeOperation: evaluate, turn a bool into 1/0, otherwise
\* convert to the type of the last non-int argument (int when all are ints)
executeOperation(op_name, args) ==
    LET nonint == {i \in 1..Len(args) : args[i].t # "int"}
        result_type == IF nonint = {} THEN "int"
                       ELSE args[CHOOSE i \in nonint : \A j \in nonint : j <= i].t
        Converted(res) ==
            IF IsErr(res) THEN res
            ELSE IF res.t = "bool" THEN PyInt(res.n)
            ELSE IF result_type = "int" THEN ToInt(res)
            ELSE ToFloat(res)
    IN  Converted(PyCall(op_name, [i \in 1..Len(args) |-> StrEval(args[i])]))

\* the token at idx is an operator whose operands, the tokens right before
\* it, are all numbers (reduceLine's all_numbers)
FoldableOp(code_line, idx) ==
    /\ code_line[idx].k = "str"
    /\ code_line[idx].s \in OperatorNames
    /\ LET op_len == OPERATOR_FUNCTIONS[code_line[idx].s]
       IN  /\ idx - 1 >= op_len
           /\ \A rev \in (idx - op_len)..(idx - 1) : IsNum(code_line[rev])

\* the token at idx is a unary minus right after a number
FoldableNeg(code_line, idx) ==
    /\ code_line[idx].k = "str"
    /\ code_line[idx].s = "unary -"
    /\ idx > 1
    /\ IsNum(code_line[idx - 1])

Foldable(code_line, idx) == FoldableOp(code_line, idx) \/ FoldableNeg(code_line, idx)

\* the tokens of code_line with those at from..to replaced by tok
Splice(code_line, from, to, tok) ==
    SubSeq(code_line, 1, from - 1) \o <<tok>> \o SubSeq(code_line, to + 1, Len(code_line))

\* one pass of reduceLine's inner loop: fold at the first foldable index
FoldAt(code_line, idx) ==
    IF FoldableOp(code_line, idx)
    THEN LET op_len == OPERATOR_FUNCTIONS[code_line[idx].s]
             args == [i \in 1..op_len |-> code_line[idx - op_len + i - 1].v]
             Replaced(op_result) ==
                [line |-> Splice(code_line, idx - op_len, idx, NumTok(op_result)),
                 err |-> IF IsErr(op_result) THEN op_result.t ELSE ""]
         IN  Replaced(executeOperation(code_line[idx].s, args))
    ELSE LET prev == code_line[idx - 1].v
             neg == [prev EXCEPT !.n = -1 * prev.n]
         IN  [line |-> Splice(code_line, idx - 1, idx, NumTok(neg)), err |-> ""]

\* CodeBlock.reduceLine: fold until a whole pass changes nothing; an
\* exception raised by executeOperation ends it
RECURSIVE reduceLine(_)
reduceLine(code_line) ==
    LET Changed(r) ==
            IF r.err # "" THEN [line |-> code_line, err |-> r.err]
            ELSE reduceLine(r.line)
        Pass(idxs) ==
            IF idxs = {} THEN [line |-> code_line, err |-> ""]
            ELSE Changed(FoldAt(code_line, CHOOSE i \in idxs : \A j \in idxs : i <= j))
    IN  Pass({i \in 1..Len(code_line) : Foldable(code_line, i)})

\* ------------------------------------------------------------------------
\* Names
\* ------------------------------------------------------------------------
\* identifiers of the modelled sources, and the words the generator looks for
Idents == {"a", "b", "c", "d", "x", "y", "n", "f", "g", "distance", "randint", "time"}
Words == Idents \cup {"return", "and", "or", "if", "elseif", "else"}

\* SYMBOL_RE: an underscore followed by a letter; the match is dropped by op[1:]
SymbolOf == [s \in {"_" \o w : w \in Words} |-> CHOOSE w \in Words : "_" \o w = s]
\* code_line[0][1:] for the assignee "_x" or, after "global", "__x"
AssigneeOf == [s \in {"_" \o w : w \in Idents} \cup {"__" \o w : w \in Idents} |->
                 IF s \in {"_" \o w : w \in Idents}
                 THEN CHOOSE w \in Idents : "_" \o w = s
                 ELSE "_" \o (CHOOSE w \in Idents : "__" \o w = s)]

\* the characters of a block tag, as toPythonLine iterates over a string
CharsOf(tag) ==
    CASE tag = "_if" -> <<"_", "i", "f">>
      [] tag = "_elseif" -> <<"_", "e", "l", "s", "e", "i", "f">>
      [] tag = "_else" -> <<"_", "e", "l", "s", "e">>

\* ------------------------------------------------------------------------
\* Generated Python code
\* ------------------------------------------------------------------------
\* An expression of the generated code is kept in evaluation order: the
\* code of the arguments followed by the call.  "lit" a number, "get"
\* get_symbol(_symbols, s), "arg" a direct reference to a parameter, "op" a
\* call of an operator function of n arguments, "call" a call of userfunc_s
\* with n arguments (cnt: "count+1" is passed), "and" / "or" the Python
\* operator whose right operand is the next n instructions, "update"
\* update_symbol(_symbols, s, <top>), "return" the return statement.
Ins(k, s, n) == [k |-> k, s |-> s, n |-> n, v |-> PyInt(0), cnt |-> FALSE]
Lit(v) == [Ins("lit", "", 0) EXCEPT !.v = v]
CallIns(f, n, cnt) == [Ins("call", f, n) EXCEPT !.cnt = cnt]

\* an entry of toPythonLine's op_stack
Opnd(type, val) == [type |-> type, val |-> val]

\* the last n entries of a sequence, and the sequence without them
LastN(sq, n) == SubSeq(sq, Len(sq) - n + 1, Len(sq))
DropN(sq, n) == SubSeq(sq, 1, Len(sq) - n)

RECURSIVE Flatten(_)
Flatten(sqs) == IF sqs = <<>> THEN <<>> ELSE Head(sqs) \o Flatten(Tail(sqs))

ArgNames(functionmap, func_name) ==
    IF func_name \in DOMAIN functionmap
    THEN {functionmap[func_name].arglist[i] : i \in 1..Len(functionmap[func_name].arglist)}
    ELSE {}

PassesCountNever(func_name) == FALSE

\* toPythonLine: inside a function body (func_name is set) a call of a user
\* function is given the argument count+1
PassesCount(func_name) == func_name # ""

\* CodeBlock.toPythonLine, one token: st is [op_stack, err, done]
GenToken(op, st, func_name, functionmap, symbol) ==
    LET op_stack == st.op_stack
        opname == IF op.s \in DOMAIN SymbolOf THEN SymbolOf[op.s] ELSE op.s
    IN
    IF op.k = "num"
    THEN [st EXCEPT !.op_stack = Append(op_stack, Opnd(op.v.t, <<Lit(op.v)>>))]
    ELSE IF opname \in OperatorNames \/ opname \in DOMAIN functionmap
    THEN LET isop == opname \in OperatorNames
             arg_count == IF isop THEN OPERATOR_FUNCTIONS[opname]
                          ELSE Len(functionmap[opname].arglist)
             params == LastN(op_stack, arg_count)
             res_type == IF opname \in CONDITIONALS THEN "bool"
                         ELSE IF \E i \in 1..arg_count : params[i].type = "float"
                              THEN "float" ELSE "int"
             call == IF isop THEN Ins("op", opname, arg_count)
                     ELSE CallIns(opname, arg_count, PassesCount(func_name))
             val == Flatten([i \in 1..arg_count |-> params[i].val]) \o <<call>>
         IN  IF Len(op_stack) - arg_count < 0
             THEN [st EXCEPT !.err = "CodeBlockException: Stack underflow"]
             ELSE [st EXCEPT !.op_stack = Append(DropN(op_stack, arg_count), Opnd(res_type, val))]
    ELSE IF opname = "unary -"
    THEN IF Len(op_stack) > 0 /\ op_stack[Len(op_stack)].type \in {"int", "float"}
         THEN LET last == op_stack[Len(op_stack)]
                  neg == Opnd(last.type, <<Lit(PyInt(-1))>> \o last.val \o <<Ins("op", "operator.mul", 2)>>)
              IN  [st EXCEPT !.op_stack = Append(DropN(op_stack, 1), neg)]
         ELSE st
    ELSE IF opname \in {"and", "or"}
    THEN IF Len(op_stack) - 2 < 0
         THEN [st EXCEPT !.err = "CodeBlockException: Stack underflow"]
         ELSE LET params == LastN(op_stack, 2)
                  val == params[1].val \o <<Ins(opname, "", Len(params[2].val))>> \o params[2].val
              IN  [st EXCEPT !.op_stack = Append(DropN(op_stack, 2), Opnd("bool", val))]
    ELSE IF opname \in {"=", "return"}
    THEN IF op_stack = <<>>
         THEN [st EXCEPT !.err = "IndexError"]
         ELSE LET last == op_stack[Len(op_stack)]
                  wrap == IF opname = "=" THEN Ins("update", symbol, 0) ELSE Ins("return", "", 0)
              IN  [st EXCEPT !.op_stack = Append(DropN(op_stack, 1), Opnd(last.type, last.val \o <<wrap>>)),
                             !.done = TRUE]
    ELSE IF opname \in ArgNames(functionmap, func_name)
         THEN [st EXCEPT !.op_stack = Append(op_stack, Opnd("int", <<Ins("arg", opname, 0)>>))]
         ELSE [st EXCEPT !.op_stack = Append(op_stack, Opnd("int", <<Ins("get", opname, 0)>>))]

RECURSIVE GenTokens(_, _, _, _, _, _)
GenTokens(code_line, op_idx, st, func_name, functionmap, symbol) ==
    IF op_idx > Len(code_line) \/ st.err # "" \/ st.done THEN st
    ELSE GenTokens(code_line, op_idx + 1,
                   GenToken(code_line[op_idx], st, func_name, functionmap, symbol),
                   func_name, functionmap, symbol)

\* CodeBlock.toPythonLine: [code, err]; func_name is "" outside a function
toPythonLine(code_line, func_name, functionmap) ==
    IF code_line = <<>> THEN [code |-> <<>>, err |-> "IndexError"]
    ELSE IF /\ code_line[Len(code_line)].k = "str" /\ code_line[Len(code_line)].s = "="
            /\ code_line[1].k = "num"
    THEN [code |-> <<>>, err |-> "TypeError"]
    ELSE
    LET isassign == code_line[Len(code_line)].k = "str" /\ code_line[Len(code_line)].s = "="
        first == code_line[1]
        symbol == IF isassign /\ first.k = "str" /\ first.s \in DOMAIN AssigneeOf
                  THEN AssigneeOf[first.s] ELSE ""
        start_pos == IF isassign THEN 2 ELSE 1
        Assembled(st) ==
            IF st.err # "" THEN [code |-> <<>>, err |-> st.err]
            ELSE IF Len(st.op_stack) > 1
            THEN [code |-> <<>>, err |-> "CodeBlockException: Stack overflow"]
            ELSE IF st.op_stack = <<>> THEN [code |-> <<>>, err |-> "IndexError"]
            ELSE [code |-> st.op_stack[1].val, err |-> ""]
    IN  Assembled(GenTokens(code_line, start_pos,
                            [op_stack |-> <<>>, err |-> "", done |-> FALSE],
                            func_name, functionmap, symbol))

\* ------------------------------------------------------------------------
\* Blocks: the items of a block are tags ("_if", "_elseif", "_else"), lines
\* (lists of postfix tokens) and nested blocks (lists of items)
\* ------------------------------------------------------------------------
TagItem(s) == [k |-> "tag", s |-> s, line |-> <<>>, block |-> <<>>]
LineItem(line) == [k |-> "line", s |-> "", line |-> line, block |-> <<>>]
BlockItem(block) == [k |-> "block", s |-> "", line |-> <<>>, block |-> block]
BlockTags == {"_if", "_elseif", "_else"}
IsTag(item) == item.k = "tag" /\ item.s \in BlockTags

\* a line of generated Python: indentation, keyword ("" for a statement,
\* "if", "elif", "else", "raise") and the code of its expression
PyLine(ind, kw, code) == [ind |-> ind, kw |-> kw, code |-> code]

\* toPythonLine applied to any item: a tag is a string, iterated by character
toPythonItem(item, func_name, functionmap) ==
    CASE item.k = "line" -> toPythonLine(item.line, func_name, functionmap)
      [] item.k = "tag" ->
            toPythonLine([i \in 1..Len(CharsOf(item.s)) |-> StrTok(CharsOf(item.s)[i])],
                         func_name, functionmap)
      [] OTHER -> [code |-> <<>>, err |-> "TypeError"]

RECURSIVE toPythonBlockFrom(_, _, _, _, _)
RECURSIVE toPythonConditional(_, _, _, _, _)

\* CodeBlock.toPythonBlock: the lines of block at the indentation col + 2;
\* [lines, err]
toPythonBlock(block, col, func_name, functionmap) ==
    toPythonBlockFrom(block, 1, col + 2, func_name, functionmap)

\* toPythonBlock's loop from block_idx on; col is loc[1] inside the loop
toPythonBlockFrom(block, block_idx, col, func_name, functionmap) ==
    IF block_idx > Len(block) THEN [lines |-> <<>>, err |-> ""]
    ELSE
    LET code_line == block[block_idx]
        Then(lines, rest) ==
            IF rest.err # "" THEN rest
            ELSE [lines |-> lines \o rest.lines, err |-> ""]
        Conditional(c) ==
            IF c.err # "" THEN c
            ELSE Then(c.lines,
                      toPythonBlockFrom(block, block_idx + 2, col, func_name, functionmap))
        Line(l) ==
            IF l.err # "" THEN [lines |-> <<>>, err |-> l.err]
            ELSE Then(<<PyLine(col, "", l.code)>>,
                      toPythonBlockFrom(block, block_idx + 1, col, func_name, functionmap))
    IN  IF IsTag(code_line)
        THEN IF block_idx + 1 > Len(block) THEN [lines |-> <<>>, err |-> "IndexError"]
             ELSE Conditional(toPythonConditional(code_line.s, block[block_idx + 1], col,
                                                  func_name, functionmap))
        ELSE Line(toPythonItem(code_line, func_name, functionmap))

PyCondName_if(tag) == IF tag \in {"_elseif", "_if"} THEN "if" ELSE "else"

\* toPythonConditional's py_cond_name: elseif becomes Python's elif
PyCondName(tag) == IF tag = "_elseif" THEN "elif" ELSE IF tag = "_if" THEN "if" ELSE "else"

\* CodeBlock.toPythonConditional: the header line at col, then the block
toPythonConditional(tag, blockitem, col, func_name, functionmap) ==
    IF blockitem.k # "block" THEN [lines |-> <<>>, err |-> "TypeError"]
    ELSE IF blockitem.block = <<>> THEN [lines |-> <<>>, err |-> "IndexError"]
    ELSE
    LET block == blockitem.block
        py_cond_name == PyCondName(tag)
        block_start_idx == IF py_cond_name \in {"if", "elif"} THEN 2 ELSE 1
        Under(header, body) ==
            IF body.err # "" THEN body
            ELSE [lines |-> <<header>> \o body.lines, err |-> ""]
        Headed(conditional_code) ==
            IF conditional_code.err # "" THEN [lines |-> <<>>, err |-> conditional_code.err]
            ELSE Under(IF py_cond_name \in {"if", "elif"}
                       THEN PyLine(col, py_cond_name, conditional_code.code)
                       ELSE PyLine(col, "else", <<>>),
                       toPythonBlock(SubSeq(block, block_start_idx, Len(block)), col,
                                     func_name, functionmap))
    IN  Headed(toPythonItem(block[1], func_name, functionmap))

\* Python's compile() of generated lines: the line after an if / elif / else
\* header must be indented deeper
PySyntaxOK(lines) ==
    \A i \in 1..Len(lines) :
        lines[i].kw \in {"if", "elif", "else"} =>
            i < Len(lines) /\ lines[i + 1].ind > lines[i].ind

\* CodeBlock.toPython: the lines of run(), none for an empty outer block
toPython(outer_block, functionmap) ==
    IF Len(outer_block) > 0 THEN toPythonBlock(outer_block, 0, "", functionmap)
    ELSE [lines |-> <<>>, err |-> ""]

\* ------------------------------------------------------------------------
\* The intermediate builder (class CodeBlock)
\* ------------------------------------------------------------------------
\* self.stack and self.frame refer to a list: the outer block, the i-th
\* inner block or the block of function f
Ref(k, i, f) == [k |-> k, i |-> i, f |-> f]
OuterRef == Ref("outer", 0, "")
InnerRef(i) == Ref("inner", i, "")
FuncRef(f) == Ref("func", 0, f)

\* an entry of functionmap: parameter names, body block, compiled code
FuncEntry(arglist, block) ==
    [arglist |-> arglist, block |-> block, compiled |-> FALSE, lines |-> <<>>]

NoFunctions == [f \in {} |-> FuncEntry(<<>>, <<>>)]

\* CodeBlock.__init__ / CodeBlock.clear: the cleared builder
ClearedBuilder ==
    [outer_block |-> <<>>, inner_blocks |-> <<>>, stack |-> OuterRef, frame |-> OuterRef,
     scratch |-> <<>>, inner_block_count |-> 0, functionmap |-> NoFunctions,
     function_name |-> ""]

clear_keeps_functionmap(b) ==
    [ClearedBuilder EXCEPT !.function_name = b.function_name,
                           !.functionmap = b.functionmap]
clear_keeps_outer_block(b) ==
    [ClearedBuilder EXCEPT !.function_name = b.function_name,
                           !.outer_block = b.outer_block]
clear(b) == [ClearedBuilder EXCEPT !.function_name = b.function_name]

\* CodeBlock.addToFuncMap
addToFuncMap(b, func_map) == [b EXCEPT !.functionmap = func_map @@ b.functionmap]

\* the list a reference points at
ListAt(b, ref) ==
    CASE ref.k = "outer" -> b.outer_block
      [] ref.k = "inner" -> b.inner_blocks[ref.i]
      [] ref.k = "func" -> b.functionmap[ref.f].block

\* list.append through a reference
AppendAt(b, ref, item) ==
    CASE ref.k = "outer" -> [b EXCEPT !.outer_block = Append(@, item)]
      [] ref.k = "inner" -> [b EXCEPT !.inner_blocks[ref.i] = Append(@, item)]
      [] ref.k = "func" -> [b EXCEPT !.functionmap[ref.f].block = Append(@, item)]

\* CodeBlock.pushAssignment: assignee ("__x" after the keyword global),
\* the collected expression and '=' go to the current stack
pushAssignment(b, is_global, ident) ==
    LET assignee == (IF is_global THEN "__" ELSE "_") \o ident
        line == <<StrTok(assignee)>> \o b.scratch \o <<StrTok("=")>>
    IN  [AppendAt(b, b.stack, LineItem(line)) EXCEPT !.scratch = <<>>]

\* CodeBlock.pushComparison
pushComparison(b) == [AppendAt(b, b.stack, LineItem(b.scratch)) EXCEPT !.scratch = <<>>]

\* CodeBlock.pushReturn
pushReturn(b) ==
    [AppendAt(b, b.stack, LineItem(b.scratch \o <<StrTok("_return")>>)) EXCEPT !.scratch = <<>>]

\* CodeBlock.pushIfCond: the tag goes to the container, a new inner block opens
pushIfCond(b, keyword) ==
    LET container_block == IF b.inner_block_count > 0
                           THEN InnerRef(Len(b.inner_blocks)) ELSE b.frame
        b1 == AppendAt(b, container_block, TagItem("_" \o keyword))
    IN  [b1 EXCEPT !.inner_block_count = @ + 1,
                   !.inner_blocks = Append(@, <<>>),
                   !.stack = InnerRef(Len(b.inner_blocks) + 1)]

\* the sequence without its i-th element
RemoveAt(sq, i) == SubSeq(sq, 1, i - 1) \o SubSeq(sq, i + 1, Len(sq))

\* CodeBlock.pushConditionalBlock: a copy of the closed block goes to its
\* parent, which becomes the current stack
pushConditionalBlock(b) ==
    IF b.inner_block_count > 1
    THEN LET cnt == b.inner_block_count - 1
         IN  [AppendAt(b, InnerRef(cnt), BlockItem(ListAt(b, b.stack)))
                 EXCEPT !.inner_block_count = cnt,
                        !.stack = InnerRef(cnt),
                        !.inner_blocks = RemoveAt(@, cnt + 1)]
    ELSE LET b1 == AppendAt(b, b.frame, BlockItem(ListAt(b, b.stack)))
         IN  [b1 EXCEPT !.inner_block_count = 0,
                        !.inner_blocks = Tail(@),
                        !.stack = b.frame]

\* CodeBlock.reduceBlock: fold every line, and the block after every tag;
\* [block, err]
RECURSIVE reduceBlockFrom(_, _)
reduceBlockFrom(block, block_idx) ==
    IF block_idx > Len(block) THEN [block |-> block, err |-> ""]
    ELSE
    LET code_line == block[block_idx]
        Nested(sub) ==
            IF sub.err # ""
            THEN [block |-> [block EXCEPT ![block_idx + 1].block = sub.block], err |-> sub.err]
            ELSE reduceBlockFrom([block EXCEPT ![block_idx + 1].block = sub.block],
                                 block_idx + 2)
        Reduced(r) ==
            IF r.err # ""
            THEN [block |-> [block EXCEPT ![block_idx].line = r.line], err |-> r.err]
            ELSE reduceBlockFrom([block EXCEPT ![block_idx].line = r.line], block_idx + 1)
    IN  IF IsTag(code_line)
        THEN IF block_idx + 1 > Len(block) THEN [block |-> block, err |-> "IndexError"]
             ELSE Nested(reduceBlockFrom(block[block_idx + 1].block, 1))
        ELSE IF code_line.k = "line"
        THEN Reduced(reduceLine(code_line.line))
        ELSE reduceBlockFrom(block, block_idx + 1)

reduceBlock(block) == reduceBlockFrom(block, 1)

\* sys.maxint of the Python build, and the value read for an unset name
sys_maxint == 2147483647
UNINITIALIZED_AS_ZERO == PyInt(0)
DEFAULT_UNINITIALIZED_VALUE == PyInt(-sys_maxint - 1)

\* the ceiling of the generated call depth check
DepthCeiling == 100

\* a parse action's result: the builder, and the fatal error raised if any
Ok(b) == [b |-> b, fatal |-> ""]
Fatal(b, msg) == [b |-> b, fatal |-> msg]

\* CodeBlock.pushFuncArgs: args is the declared parameter list, each
\* [type, name], or the single entry of type "void"
pushFuncArgs(b, func_name, args) ==
    IF func_name \in DOMAIN b.functionmap
    THEN Fatal(b, "Redefinition of existing function")
    ELSE IF \E i \in 1..Len(args) : args[i].type \notin {"void", "number", "string"}
    THEN Fatal(b, "Missing type name in declaration of function")
    ELSE IF args[1].type = "void" /\ Len(args) > 1
    THEN Fatal(b, "Extraneous token following void in declaration of function")
    ELSE
    LET arg_list == IF args[1].type # "void" THEN [i \in 1..Len(args) |-> args[i].name]
                    ELSE <<>>
        entry == (func_name :> FuncEntry(arg_list, <<>>))
    IN  Ok([b EXCEPT !.functionmap = entry @@ @,
                     !.stack = FuncRef(func_name),
                     !.frame = FuncRef(func_name),
                     !.function_name = func_name])

\* the preamble of a compiled function: the call depth check
GuardLines ==
    << PyLine(2, "if", <<Ins("arg", "count", 0), Lit(PyInt(DepthCeiling)),
                         Ins("op", "operator.gt", 2)>>),
       PyLine(4, "raise", <<>>) >>

\* RETURN_RE.match: the line is a return statement at indentation 2
IsReturnLine(pyline) ==
    /\ pyline.ind = 2
    /\ pyline.kw = ""
    /\ pyline.code # <<>>
    /\ pyline.code[Len(pyline.code)].k = "return"

SentinelReturn == PyLine(2, "", <<Lit(DEFAULT_UNINITIALIZED_VALUE), Ins("return", "", 0)>>)

FuncLines_always_appended(function_body) ==
    Append(GuardLines \o function_body, SentinelReturn)

\* the lines of a compiled function: preamble, body, and a return of the
\* uninitialized value unless the last line is a return
FuncLines(function_body) ==
    LET Ended(func_lines) ==
            IF IsReturnLine(func_lines[Len(func_lines)]) THEN func_lines
            ELSE Append(func_lines, SentinelReturn)
    IN  Ended(GuardLines \o function_body)

\* CodeBlock.pushFuncBlock: fold the function's block, generate and compile
\* its code, and point stack and frame back at the outer block
pushFuncBlock(b) ==
    LET f == b.function_name
        Compiled(b1, func_lines) ==
            IF ~PySyntaxOK(func_lines) THEN Fatal(b1, "SyntaxError")
            ELSE Ok([b1 EXCEPT !.functionmap[f].compiled = TRUE,
                               !.functionmap[f].lines = func_lines,
                               !.function_name = "None",
                               !.stack = OuterRef,
                               !.frame = OuterRef])
        Generated(b1, function_body) ==
            IF function_body.err # "" THEN Fatal(b1, function_body.err)
            ELSE Compiled(b1, FuncLines(function_body.lines))
        Folded(red, b1) ==
            IF red.err # "" THEN Fatal(b1, red.err)
            ELSE Generated(b1, toPythonBlock(red.block, 0, f, b1.functionmap))
        Reduced(red) ==
            Folded(red, IF b.frame.k = "func"
                        THEN [b EXCEPT !.functionmap[b.frame.f].block = red.block]
                        ELSE [b EXCEPT !.outer_block = red.block])
    IN  Reduced(reduceBlock(ListAt(b, b.frame)))

\* ------------------------------------------------------------------------
\* Source text and the expression callbacks
\* ------------------------------------------------------------------------
\* A source is the sequence of its lexical tokens (comments and white space
\* dropped).  fnumber: the text of a number; ident: a word.
NumText == ("0" :> 0) @@ ("1" :> 1) @@ ("2" :> 2) @@ ("3" :> 3) @@ ("4" :> 4) @@
           ("5" :> 5) @@ ("6" :> 6) @@ ("7" :> 7) @@ ("8" :> 8) @@ ("9" :> 9)
TextOf(n) == CHOOSE s \in DOMAIN NumText : NumText[s] = n
Keywords == {"if", "elseif", "else", "function", "number", "string", "void",
             "return", "global", "not", "and", "or"}
IsNumber(tok) == tok \in DOMAIN NumText
IsWord(tok) == tok \in Idents \cup Keywords
EndOfText == "<end>"
TokAt(src, pos) == IF pos <= Len(src) THEN src[pos] ELSE EndOfText

\* CodeBlock.OPERATOR_REPLACEMENTS
OPERATOR_REPLACEMENTS ==
    ("+" :> "operator.add") @@ ("-" :> "operator.sub") @@ ("*" :> "operator.mul") @@
    ("/" :> "operator.truediv") @@ ("%" :> "operator.mod") @@ ("<" :> "operator.lt") @@
    ("not" :> "operator.not_") @@ ("<=" :> "operator.le") @@ (">" :> "operator.gt") @@
    (">=" :> "operator.ge") @@ ("==" :> "operator.eq") @@ ("!=" :> "operator.ne") @@
    ("^" :> "math.pow")

\* infix_to_postfix.convert_infix_to_postfix for one token: the text of a
\* number becomes the number, an operator its replacement, any other word a
\* symbol reference
ConvertTok(tok) ==
    IF IsNumber(tok) THEN NumTok(PyInt(NumText[tok]))
    ELSE IF tok \in DOMAIN OPERATOR_REPLACEMENTS THEN StrTok(OPERATOR_REPLACEMENTS[tok])
    ELSE StrTok("_" \o tok)

\* convert_infix_to_postfix for the token lists the parse actions pass: a
\* single operand or operator
convert_infix_to_postfix(tok_list) == [i \in 1..Len(tok_list) |-> ConvertTok(tok_list[i])]

\* CodeBlock.pushAtom
pushAtom(b, toks) ==
    LET add_not == toks[1] = "not"
        add_tok == IF ~add_not THEN toks[1] ELSE IF Len(toks) > 1 THEN toks[2] ELSE ""
        func_call == add_tok \in DOMAIN b.functionmap
    IN  IF func_call
        THEN [b EXCEPT !.scratch = @ \o convert_infix_to_postfix(<<add_tok>>)
                                     \o (IF add_not THEN <<StrTok("operator.not_")>> ELSE <<>>)]
        ELSE [b EXCEPT !.scratch = @ \o convert_infix_to_postfix(toks)]

\* CodeBlock.pushFirst: the operator toks[0] goes to scratch
pushFirst(b, op) == [b EXCEPT !.scratch = @ \o convert_infix_to_postfix(<<op>>)]

\* CodeBlock.pushUMinus: one 'unary -' for every leading '-' of toks
pushUMinus(b, minus_count) ==
    [b EXCEPT !.scratch = @ \o [i \in 1..minus_count |-> StrTok("unary -")]]

\* CodeBlock.countFunctionArgs, the loop over toks[1:]: st is
\* [arg_count, skip_count, fatal]
RECURSIVE CountArgs(_, _, _, _, _)
CountArgs(functionmap, func_name, toks, tok_idx, st) ==
    IF tok_idx > Len(toks) \/ st.fatal # "" THEN st
    ELSE
    LET tok == toks[tok_idx]
        ac == IF st.arg_count = 0 THEN 1 ELSE st.arg_count
        skips == IF tok \in DOMAIN functionmap /\ Len(functionmap[tok].arglist) > 0
                 THEN Len(functionmap[tok].arglist) - 1 ELSE 0
        sc == st.skip_count + skips
        st1 == IF Len(functionmap[func_name].arglist) = 0
               THEN [st EXCEPT !.fatal = "Too many arguments to function"]
               ELSE IF tok = ","
               THEN IF sc > 0 THEN [arg_count |-> ac, skip_count |-> sc - 1, fatal |-> ""]
                    ELSE [arg_count |-> ac + 1, skip_count |-> sc, fatal |-> ""]
               ELSE [arg_count |-> ac, skip_count |-> sc, fatal |-> ""]
    IN  CountArgs(functionmap, func_name, toks, tok_idx + 1, st1)

\* CodeBlock.countFunctionArgs: "" or the fatal error raised
countFunctionArgs(b, toks) ==
    IF toks[1] \notin DOMAIN b.functionmap THEN "Unknown function call"
    ELSE
    LET func_name == toks[1]
        declared == Len(b.functionmap[func_name].arglist)
        Counted(st) ==
            IF st.fatal # "" THEN st.fatal
            ELSE IF st.arg_count < declared THEN "Too few arguments to function"
            ELSE IF st.arg_count > declared THEN "Too many arguments to function"
            ELSE ""
    IN  Counted(CountArgs(b.functionmap, func_name, toks, 2,
                          [arg_count |-> 0, skip_count |-> 0, fatal |-> ""]))

\* ------------------------------------------------------------------------
\* The grammar recognizer (BNF): recursive descent over the tokens, calling
\* the parse actions as pyparsing does.  A result is [ok, pos, b, fatal,
\* toks]: whether the element matched, the position after it, the builder
\* (parse actions that ran before a failed match are not undone), the fatal
\* error raised by a parse action (which ends the parse), and the matched
\* tokens handed to the enclosing element's parse action.
\* ------------------------------------------------------------------------
PMatch(pos, b, toks) == [ok |-> TRUE, pos |-> pos, b |-> b, fatal |-> "", toks |-> toks]
PFail(pos, b) == [ok |-> FALSE, pos |-> pos, b |-> b, fatal |-> "", toks |-> <<>>]
PFatal(pos, b, msg) == [ok |-> FALSE, pos |-> pos, b |-> b, fatal |-> msg, toks |-> <<>>]
\* a Group(...) in the tokens of the enclosing element
GroupTok == "<group>"

RECURSIVE MinusRun(_, _)
MinusRun(src, pos) == IF TokAt(src, pos) = "-" THEN 1 + MinusRun(src, pos + 1) ELSE 0

RECURSIVE atom(_, _, _)
RECURSIVE factor(_, _, _)
RECURSIVE term(_, _, _)
RECURSIVE expr(_, _, _)
RECURSIVE combinatorial(_, _, _)
RECURSIVE MoreArgs(_, _, _, _)
RECURSIVE MoreFactors(_, _, _, _, _)
RECURSIVE MoreCombinations(_, _, _)

\* ZeroOrMore( "," + combinatorial ) of a call's argument list
MoreArgs(src, pos, b, toks) ==
    LET Next1(r) ==
            IF r.fatal # "" THEN r
            ELSE IF ~r.ok THEN PMatch(pos, r.b, toks)
            ELSE MoreArgs(src, r.pos, r.b, toks \o <<",">> \o r.toks)
    IN  IF TokAt(src, pos) # "," THEN PMatch(pos, b, toks)
        ELSE Next1(combinatorial(src, pos + 1, b))

\* Optional( combinatorial + ZeroOrMore( "," + combinatorial ) ) of a call,
\* given the match of the first argument
CallArgs(src, pos, first) ==
    IF first.fatal # "" THEN first
    ELSE IF ~first.ok THEN PMatch(pos + 2, first.b, <<>>)
    ELSE MoreArgs(src, first.pos, first.b, first.toks)

\* rpar and the parse action countFunctionArgs of a call, given the match of
\* its arguments
CallClose(src, pos, args) ==
    LET toks == <<TokAt(src, pos)>> \o args.toks
        Counted(fatal) ==
            IF fatal # "" THEN PFatal(pos, args.b, fatal)
            ELSE PMatch(args.pos + 1, args.b, toks)
    IN  IF args.fatal # "" THEN args
        ELSE IF TokAt(src, args.pos) # ")" THEN PFail(pos, args.b)
        ELSE Counted(countFunctionArgs(args.b, toks))

\* ident + lpar + Optional( combinatorial + ZeroOrMore( "," + combinatorial ) )
\* + rpar, with the parse action countFunctionArgs
CallAtom(src, pos, b) ==
    IF ~(IsWord(TokAt(src, pos)) /\ TokAt(src, pos + 1) = "(") THEN PFail(pos, b)
    ELSE CallClose(src, pos, CallArgs(src, pos, combinatorial(src, pos + 2, b)))

\* Group( lpar + combinatorial + rpar )
ParenAtom(src, pos, b) ==
    LET Closed(r) ==
            IF r.fatal # "" \/ ~r.ok THEN r
            ELSE IF TokAt(src, r.pos) # ")" THEN PFail(pos, r.b)
            ELSE PMatch(r.pos + 1, r.b, <<GroupTok>>)
    IN  IF TokAt(src, pos) # "(" THEN PFail(pos, b)
        ELSE Closed(combinatorial(src, pos + 1, b))

\* the alternatives of atom after the '-' signs, given the result of the
\* first one (the call): a call, a number or an identifier (parse action
\* pushAtom) or a parenthesized combination
AtomOperand(src, p, call) ==
    IF call.fatal # "" THEN call
    ELSE IF call.ok THEN PMatch(call.pos, pushAtom(call.b, call.toks), call.toks)
    ELSE IF IsNumber(TokAt(src, p)) \/ IsWord(TokAt(src, p))
    THEN PMatch(p + 1, pushAtom(call.b, <<TokAt(src, p)>>), <<TokAt(src, p)>>)
    ELSE ParenAtom(src, p, call.b)

\* the parse action pushUMinus of atom, given the match of its operand
AtomMinus(pos, minus_count, simple) ==
    IF simple.fatal # "" \/ ~simple.ok THEN [simple EXCEPT !.pos = pos]
    ELSE PMatch(simple.pos, pushUMinus(simple.b, minus_count),
                [i \in 1..minus_count |-> "-"] \o simple.toks)

\* atom: any number of '-', then a call, a number or an identifier (parse
\* action pushAtom) or a parenthesized combination; parse action pushUMinus
atom(src, pos, b) ==
    LET minus_count == MinusRun(src, pos)
        p == pos + minus_count
    IN  AtomMinus(pos, minus_count, AtomOperand(src, p, CallAtom(src, p, b)))

Operand_atom(level, src, pos, b) ==
    CASE level = "factor" -> atom(src, pos, b)
      [] level = "term" -> term(src, pos, b)

\* ZeroOrMore( ( op + operand ).setParseAction(pushFirst) ) for the operators
\* of one level; level names the operand's production
Operand(level, src, pos, b) ==
    CASE level = "factor" -> factor(src, pos, b)
      [] level = "term" -> term(src, pos, b)

MoreFactors(level, ops, src, pos, r0) ==
    LET Next1(r) ==
            IF r.fatal # "" THEN r
            ELSE IF ~r.ok THEN [r0 EXCEPT !.b = r.b]
            ELSE MoreFactors(level, ops, src, r.pos,
                             PMatch(r.pos, pushFirst(r.b, TokAt(src, pos)),
                                    r0.toks \o <<TokAt(src, pos)>> \o r.toks))
    IN  IF TokAt(src, pos) \notin ops THEN r0
        ELSE Next1(Operand(level, src, pos + 1, r0.b))

\* an operand followed by ZeroOrMore( op + operand ) of one level
Chain(level, ops, src, r) ==
    IF r.fatal # "" \/ ~r.ok THEN r
    ELSE MoreFactors(level, ops, src, r.pos, r)

\* factor :: atom [ expop factor ]*
factor(src, pos, b) == Chain("factor", {"^"}, src, atom(src, pos, b))

term_with_addop(src, pos, b) ==
    Chain("factor", {"*", "/", "%", "+", "-"}, src, factor(src, pos, b))

\* term :: factor [ multop factor ]*
term(src, pos, b) == Chain("factor", {"*", "/", "%"}, src, factor(src, pos, b))

\* expr :: term [ addop term ]*
expr(src, pos, b) == Chain("term", {"+", "-"}, src, term(src, pos, b))

BoolOps == {"or", "and"}
CompareOps == {"==", "!=", "<=", "<", ">=", ">"}

\* ZeroOrMore( ( ( boolop | compareop ) + Optional( boolnot ) + expr )
\* .setParseAction(pushFirst) )
MoreCombinations(src, pos, r0) ==
    LET notlen == IF TokAt(src, pos + 1) = "not" THEN 1 ELSE 0
        Next1(r) ==
            IF r.fatal # "" THEN r
            ELSE IF ~r.ok THEN [r0 EXCEPT !.b = r.b]
            ELSE MoreCombinations(src, r.pos,
                                  PMatch(r.pos, pushFirst(r.b, TokAt(src, pos)),
                                         r0.toks \o SubSeq(src, pos, pos + notlen) \o r.toks))
    IN  IF TokAt(src, pos) \notin BoolOps \cup CompareOps THEN r0
        ELSE Next1(expr(src, pos + 1 + notlen, r0.b))

\* [ ( boolop | compareop ) [boolnot] expr ]* of a combination, given the
\* match of its first expr
Combination(src, pos, notlen, r) ==
    IF r.fatal # "" \/ ~r.ok THEN [r EXCEPT !.pos = pos]
    ELSE MoreCombinations(src, r.pos,
                          [r EXCEPT !.toks = SubSeq(src, pos, pos + notlen - 1) \o @])

\* combinatorial :: [boolnot] expr [ ( boolop | compareop ) [boolnot] expr ]*
combinatorial(src, pos, b) ==
    LET notlen == IF TokAt(src, pos) = "not" THEN 1 ELSE 0
    IN  Combination(src, pos, notlen, expr(src, pos + notlen, b))

RECURSIVE Statements(_, _, _, _)
RECURSIVE conditional_set(_, _, _)

\* assignment :: [ global ] ident '=' combinatorial, parse action pushAssignment
assignment(src, pos, b) ==
    LET g == IF TokAt(src, pos) = "global" THEN 1 ELSE 0
        ident == TokAt(src, pos + g)
        Assigned(r) ==
            IF r.fatal # "" \/ ~r.ok THEN [r EXCEPT !.pos = pos]
            ELSE PMatch(r.pos, pushAssignment(r.b, g = 1, ident), <<>>)
    IN  IF ~(IsWord(ident) /\ TokAt(src, pos + g + 1) = "=") THEN PFail(pos, b)
        ELSE Assigned(combinatorial(src, pos + g + 2, b))

\* returnline :: return combinatorial, parse action pushReturn
returnline(src, pos, b) ==
    LET Returned(r) ==
            IF r.fatal # "" \/ ~r.ok THEN [r EXCEPT !.pos = pos]
            ELSE PMatch(r.pos, pushReturn(r.b), <<>>)
    IN  IF TokAt(src, pos) # "return" THEN PFail(pos, b)
        ELSE Returned(combinatorial(src, pos + 1, b))

\* block :: '{' ( assignment | conditional_set )* '}', parse action
\* pushConditionalBlock
block(src, pos, b) ==
    LET Closed(r) ==
            IF r.fatal # "" THEN r
            ELSE IF TokAt(src, r.pos) # "}" THEN PFail(pos, r.b)
            ELSE PMatch(r.pos + 1, pushConditionalBlock(r.b), <<>>)
    IN  IF TokAt(src, pos) # "{" THEN PFail(pos, b)
        ELSE Closed(Statements("block", src, pos + 1, b))

\* the condition of a branch: for if / elseif the parenthesized condition
\* (parse action pushComparison), none for else
BranchCond(keyword, src, pos, b1) ==
    LET Compared(c) ==
            IF c.fatal # "" \/ ~c.ok THEN c
            ELSE PMatch(c.pos, pushComparison(c.b), <<>>)
    IN  IF keyword = "else" THEN PMatch(pos + 1, b1, <<>>)
        ELSE Compared(ParenAtom(src, pos + 1, b1))

\* the block of a branch, given the match of its condition
BranchBlock(src, pos, cond) ==
    LET Body(blk) == IF blk.fatal # "" \/ blk.ok THEN blk ELSE PFail(pos, blk.b)
    IN  IF cond.fatal # "" THEN cond
        ELSE IF ~cond.ok THEN PFail(pos, cond.b)
        ELSE Body(block(src, cond.pos, cond.b))

\* one branch: the keyword (parse action pushIfCond), for if / elseif the
\* parenthesized condition (parse action pushComparison), and the block
Branch(keyword, src, pos, b) ==
    IF TokAt(src, pos) # keyword THEN PFail(pos, b)
    ELSE BranchBlock(src, pos, BranchCond(keyword, src, pos, pushIfCond(b, keyword)))

\* ZeroOrMore( conditional_continue )
RECURSIVE MoreBranches(_, _, _)
MoreBranches(src, pos, b) ==
    LET Next1(r) ==
            IF r.fatal # "" THEN r
            ELSE IF ~r.ok THEN PMatch(pos, r.b, <<>>)
            ELSE MoreBranches(src, r.pos, r.b)
    IN  Next1(Branch("elseif", src, pos, b))

\* ZeroOrMore( conditional_continue ) of a conditional, given the match of
\* its if-branch
ElseifBranches(src, first) ==
    IF first.fatal # "" \/ ~first.ok THEN first
    ELSE MoreBranches(src, first.pos, first.b)

\* Optional( conditional_end ) of a conditional, given the match of the
\* branches before it
ElseBranch(src, more) ==
    LET Ended(last) ==
            IF last.fatal # "" \/ last.ok THEN last
            ELSE PMatch(more.pos, last.b, <<>>)
    IN  IF more.fatal # "" \/ ~more.ok THEN more
        ELSE Ended(Branch("else", src, more.pos, more.b))

\* conditional_set :: if-branch elseif-branch* [ else-branch ]
conditional_set(src, pos, b) ==
    ElseBranch(src, ElseifBranches(src, Branch("if", src, pos, b)))

\* the declared parameters from pos on: typestring ident [ ',' typestring ident ]*
RECURSIVE ParamList(_, _, _)
ParamList(src, pos, args) ==
    LET Sofar(args1) == [ok |-> TRUE, pos |-> pos + 2, args |-> args1]
        Rest(args1, more) == IF more.ok THEN more ELSE Sofar(args1)
        Declared(args1) ==
            IF TokAt(src, pos + 2) = ","
            THEN Rest(args1, ParamList(src, pos + 3, args1))
            ELSE Sofar(args1)
    IN  IF ~(TokAt(src, pos) \in {"number", "string"} /\ IsWord(TokAt(src, pos + 1)))
        THEN [ok |-> FALSE, pos |-> pos, args |-> args]
        ELSE Declared(Append(args, [type |-> TokAt(src, pos), name |-> TokAt(src, pos + 1)]))

\* func_def_args :: ident '(' ( typed parameters | void ) ')', parse action
\* pushFuncArgs
func_def_args(src, pos, b) ==
    LET Pushed(params, r) ==
            IF r.fatal # "" THEN PFatal(pos, r.b, r.fatal)
            ELSE PMatch(params.pos + 1, r.b, <<>>)
        Listed(params) ==
            IF ~params.ok \/ TokAt(src, params.pos) # ")" THEN PFail(pos, b)
            ELSE Pushed(params, pushFuncArgs(b, TokAt(src, pos), params.args))
        Typed(typed) ==
            Listed(IF typed.ok THEN typed
                   ELSE IF TokAt(src, pos + 2) = "void"
                   THEN [ok |-> TRUE, pos |-> pos + 3,
                         args |-> <<[type |-> "void", name |-> ""]>>]
                   ELSE typed)
    IN  IF ~(IsWord(TokAt(src, pos)) /\ TokAt(src, pos + 1) = "(") THEN PFail(pos, b)
        ELSE Typed(ParamList(src, pos + 2, <<>>))

\* '}' and the parse action pushFuncBlock of a function block, given the
\* match of its statements
FunctionBlockEnd(src, pos, r) ==
    LET Pushed(f) ==
            IF f.fatal # "" THEN PFatal(pos, f.b, f.fatal)
            ELSE PMatch(r.pos + 1, f.b, <<>>)
    IN  IF r.fatal # "" THEN r
        ELSE IF TokAt(src, r.pos) # "}" THEN PFail(pos, r.b)
        ELSE Pushed(pushFuncBlock(r.b))

\* function_block :: '{' ( assignment | conditional_set | returnline )* '}',
\* parse action pushFuncBlock
function_block(src, pos, b) ==
    IF TokAt(src, pos) # "{" THEN PFail(pos, b)
    ELSE FunctionBlockEnd(src, pos, Statements("function", src, pos + 1, b))

\* the function_block of a function definition, given the match of its
\* func_def_args
FuncDefBody(src, pos, a) ==
    LET Body(blk) == IF blk.fatal # "" \/ blk.ok THEN blk ELSE PFail(pos, blk.b)
    IN  IF a.fatal # "" \/ ~a.ok THEN [a EXCEPT !.pos = pos]
        ELSE Body(function_block(src, a.pos, a.b))

\* func_def :: function func_def_args function_block
func_def(src, pos, b) ==
    IF TokAt(src, pos) # "function" THEN PFail(pos, b)
    ELSE FuncDefBody(src, pos, func_def_args(src, pos + 1, b))

\* MatchFirst: the next alternative is tried where the one before did not
\* match
OrAssignment(src, pos, fd) ==
    IF fd.fatal # "" \/ fd.ok THEN fd ELSE assignment(src, pos, fd.b)

OrConditionalSet(src, pos, asg) ==
    IF asg.fatal # "" \/ asg.ok THEN asg ELSE conditional_set(src, pos, asg.b)

OrReturnline(where, src, pos, cs) ==
    IF cs.fatal # "" \/ cs.ok THEN cs
    ELSE IF where = "function" THEN returnline(src, pos, cs.b)
    ELSE PFail(pos, cs.b)

\* the first alternative that matches at pos, tried in the grammar's order:
\* func_def (top level only), assignment, conditional_set, returnline
\* (function blocks only)
Statement(where, src, pos, b) ==
    OrReturnline(where, src, pos,
        OrConditionalSet(src, pos,
            OrAssignment(src, pos,
                IF where = "top" THEN func_def(src, pos, b) ELSE PFail(pos, b))))

\* ZeroOrMore of the statements allowed at this place
Statements(where, src, pos, b) ==
    LET Next1(r) ==
            IF r.fatal # "" THEN r
            ELSE IF ~r.ok THEN PMatch(pos, r.b, <<>>)
            ELSE Statements(where, src, r.pos, r.b)
    IN  Next1(Statement(where, src, pos, b))

\* bnf :: OneOrMore( func_def | assignment | conditional_set ) + stringEnd
parseString(src, b) ==
    LET Parsed(r) ==
            IF r.fatal # "" THEN r
            ELSE IF r.pos = 1 \/ r.pos <= Len(src) THEN PFail(r.pos, r.b)
            ELSE r
    IN  Parsed(Statements("top", src, 1, b))

\* ------------------------------------------------------------------------
\* Symbol tables
\* ------------------------------------------------------------------------
EmptyDict == [name \in {} |-> PyInt(0)]

\* SymbolTable.__init__: the initial symbols are the variables, no constants
SymbolTable(initial_symbols) == [vars |-> initial_symbols, consts |-> EmptyDict]

\* SymbolTable.setConstant
setConstant(table, constant_name, constant_value) ==
    [table EXCEPT !.consts = (constant_name :> constant_value) @@ @]

\* SymbolTable.__setitem__: a constant is not written
SymbolTable_setitem(table, item, val) ==
    IF item \notin DOMAIN table.consts
    THEN [table EXCEPT !.vars = (item :> val) @@ @]
    ELSE table

\* SymbolTable.__getitem__ with the variable looked up first
SymbolTable_getitem_vars_first(table, item) ==
    IF item \in DOMAIN table.vars THEN table.vars[item]
    ELSE IF item \in DOMAIN table.consts THEN table.consts[item]
    ELSE DEFAULT_UNINITIALIZED_VALUE

\* SymbolTable.__getitem__: the constant, else the variable, else the
\* uninitialized value
SymbolTable_getitem(table, item) ==
    IF item \in DOMAIN table.consts THEN table.consts[item]
    ELSE IF item \in DOMAIN table.vars THEN table.vars[item]
    ELSE DEFAULT_UNINITIALIZED_VALUE

\* run_time_support.get_symbol: the local symbol if there is one, else the
\* global table's value
get_symbol(locals, globals, name) ==
    IF name \in DOMAIN locals THEN locals[name] ELSE SymbolTable_getitem(globals, name)

\* run_time_support.update_symbol: a name marked global ("_x") is written to
\* the global table, any other to the local symbols; [locals, globals]
update_symbol(locals, globals, name, value) ==
    IF name \in {"_" \o w : w \in Idents}
    THEN [locals |-> locals, globals |-> SymbolTable_setitem(globals, SymbolOf[name], value)]
    ELSE [locals |-> (name :> value) @@ locals, globals |-> globals]

\* ------------------------------------------------------------------------
\* Execution of the generated code
\* ------------------------------------------------------------------------
\* a frame of the Python call stack: the function ("" for run), the line and
\* the instruction reached, the operand stack of the line's expression and
\* the parameters (with count)
Frame(unit, env) == [unit |-> unit, pc |-> 1, ip |-> 1, vs |-> <<>>, env |-> env]

\* the event that ends a run of instructions
Ev(ev, ip, vs, locals, globals) ==
    [ev |-> ev, ip |-> ip, vs |-> vs, locals |-> locals, globals |-> globals,
     f |-> "", args |-> <<>>, cnt |-> FALSE, err |-> ""]

\* the instructions of code from ip on, up to the end of the line ("end"),
\* a call of a user function ("call"), a return or an exception ("raise")
RECURSIVE RunCode(_, _, _, _, _, _)
RunCode(code, ip, vs, env, locals, globals) ==
    IF ip > Len(code) THEN Ev("end", ip, vs, locals, globals)
    ELSE
    LET i == code[ip]
        top == vs[Len(vs)]
    IN  CASE i.k = "lit" -> RunCode(code, ip + 1, Append(vs, i.v), env, locals, globals)
          [] i.k = "get" ->
                RunCode(code, ip + 1, Append(vs, get_symbol(locals, globals, i.s)),
                        env, locals, globals)
          [] i.k = "arg" ->
                IF i.s \in DOMAIN env
                THEN RunCode(code, ip + 1, Append(vs, env[i.s]), env, locals, globals)
                ELSE [Ev("raise", ip, vs, locals, globals) EXCEPT !.err = "NameError"]
          [] i.k = "op" ->
                LET Applied(res) ==
                        IF IsErr(res)
                        THEN [Ev("raise", ip, vs, locals, globals) EXCEPT !.err = res.t]
                        ELSE RunCode(code, ip + 1, Append(DropN(vs, i.n), res),
                                     env, locals, globals)
                IN  Applied(PyCall(i.s, LastN(vs, i.n)))
          [] i.k = "call" ->
                [Ev("call", ip + 1, DropN(vs, i.n), locals, globals) EXCEPT
                    !.f = i.s, !.args = LastN(vs, i.n), !.cnt = i.cnt]
          [] i.k \in {"and", "or"} ->
                IF Truthy(top) = (i.k = "and")
                THEN RunCode(code, ip + 1, DropN(vs, 1), env, locals, globals)
                ELSE RunCode(code, ip + 1 + i.n, vs, env, locals, globals)
          [] i.k = "update" ->
                LET Updated(u) == RunCode(code, ip + 1, vs, env, u.locals, u.globals)
                IN  Updated(update_symbol(locals, globals, i.s, top))
          [] i.k = "return" -> Ev("return", ip, vs, locals, globals)

\* the first line from j on that is indented at most ind (Len + 1 if none)
RECURSIVE NextAtOrBelow(_, _, _)
NextAtOrBelow(lines, j, ind) ==
    IF j > Len(lines) \/ lines[j].ind <= ind THEN j
    ELSE NextAtOrBelow(lines, j + 1, ind)

\* the line executed after the one before j when control falls through: the
\* elif and else branches that follow a branch that was taken are skipped
RECURSIVE AfterSeq(_, _)
AfterSeq(lines, j) ==
    IF j <= Len(lines) /\ lines[j].kw \in {"elif", "else"}
    THEN AfterSeq(lines, NextAtOrBelow(lines, j + 1, lines[j].ind))
    ELSE j

\* the line executed after the condition of the if / elif line pc was false
AfterFalse(lines, pc) ==
    LET j == NextAtOrBelow(lines, pc + 1, lines[pc].ind)
    IN  IF j <= Len(lines) /\ lines[j].ind = lines[pc].ind /\ lines[j].kw = "elif" THEN j
        ELSE IF j <= Len(lines) /\ lines[j].ind = lines[pc].ind /\ lines[j].kw = "else" THEN j + 1
        ELSE AfterSeq(lines, j)

\* the module of a loaded code block: functions holds the compiled user
\* functions, run the lines of run() if it was defined
LinesOf(module, unit) == IF unit = "" THEN module.run ELSE module.functions[unit].lines

Idle == [status |-> "idle", block |-> "", stack |-> <<>>, locals |-> EmptyDict, err |-> ""]

Raised(ex, locals, msg) == [ex EXCEPT !.status = "raised", !.stack = <<>>, !.locals = locals, !.err = msg]

\* control passes to line pc of the innermost frame; falling off the end
\* of run() ends the execution
Goto(ex, lines, locals, pc) ==
    LET depth == Len(ex.stack)
        cur == ex.stack[depth]
    IN  IF pc > Len(lines)
        THEN IF cur.unit = ""
             THEN [ex EXCEPT !.status = "done", !.stack = <<>>, !.locals = locals]
             ELSE Raised(ex, locals, "TypeError")
        ELSE [ex EXCEPT !.stack[depth] = [cur EXCEPT !.pc = pc, !.ip = 1, !.vs = <<>>],
                        !.locals = locals]

\* the call of a user function: a new frame with the parameters and count
CallFunction(ex, module, ev) ==
    LET depth == Len(ex.stack)
        cur == ex.stack[depth]
    IN  IF ev.f \notin DOMAIN module.functions
        THEN Raised(ex, ev.locals, "NameError")
        ELSE IF Len(module.functions[ev.f].arglist) # Len(ev.args)
        THEN Raised(ex, ev.locals, "TypeError")
        ELSE LET params == module.functions[ev.f].arglist
                 count == IF ev.cnt THEN PyInt(cur.env["count"].n + 1) ELSE PyInt(0)
                 env == [name \in {params[i] : i \in 1..Len(params)} |->
                           ev.args[CHOOSE i \in 1..Len(params) : params[i] = name]]
                        @@ ("count" :> count)
                 caller == [cur EXCEPT !.ip = ev.ip, !.vs = ev.vs]
             IN  [ex EXCEPT !.stack = Append([@ EXCEPT ![depth] = caller], Frame(ev.f, env)),
                            !.locals = ev.locals]

\* the return of a value to the calling frame; the return of run() ends the
\* execution
ReturnValue(ex, ev) ==
    LET depth == Len(ex.stack)
    IN  IF depth = 1
        THEN [ex EXCEPT !.status = "done", !.stack = <<>>, !.locals = ev.locals]
        ELSE LET caller == ex.stack[depth - 1]
                 value == ev.vs[Len(ev.vs)]
             IN  [ex EXCEPT !.stack = Append(SubSeq(@, 1, depth - 2),
                                             [caller EXCEPT !.vs = Append(@, value)]),
                            !.locals = ev.locals]

\* the execution after the event that ended the current line
AfterEvent(ex, module, ev) ==
    LET cur == ex.stack[Len(ex.stack)]
        lines == LinesOf(module, cur.unit)
        line == lines[cur.pc]
    IN  CASE ev.ev = "raise" -> Raised(ex, ev.locals, ev.err)
          [] ev.ev = "call" -> CallFunction(ex, module, ev)
          [] ev.ev = "return" -> ReturnValue(ex, ev)
          [] ev.ev = "end" ->
                IF line.kw \in {"if", "elif"}
                THEN IF Truthy(ev.vs[Len(ev.vs)])
                     THEN Goto(ex, lines, ev.locals, cur.pc + 1)
                     ELSE Goto(ex, lines, ev.locals, AfterFalse(lines, cur.pc))
                ELSE Goto(ex, lines, ev.locals, AfterSeq(lines, cur.pc + 1))

\* one step of the running execution ex of module: the current line of
\* the innermost frame runs up to its end, a call, a return or an
\* exception; [exec, globals]
StepExec(ex, globals, module) ==
    LET cur == ex.stack[Len(ex.stack)]
        lines == LinesOf(module, cur.unit)
        line == lines[cur.pc]
        Ended(ev) == [exec |-> AfterEvent(ex, module, ev), globals |-> ev.globals]
    IN  IF line.kw = "raise"
        THEN [exec |-> Raised(ex, ex.locals, "CodeBlockRuntimeError"), globals |-> globals]
        ELSE IF line.kw = "else"
        THEN [exec |-> Goto(ex, lines, ex.locals, cur.pc + 1), globals |-> globals]
        ELSE Ended(RunCode(line.code, cur.ip, cur.vs, cur.env, ex.locals, globals))

\* ------------------------------------------------------------------------
\* Compilation: CodeBlockGenerator.wrap_code_block and CodeBlock.load
\* ------------------------------------------------------------------------
\* CodeBlock.copyTo into CodeBlock(program_name, module_context, funcmap)
NewBlock(program_name, funcmap, b) ==
    [name |-> program_name, outer_block |-> b.outer_block,
     functionmap |-> b.functionmap @@ funcmap]

NoBlock == [name |-> "", outer_block |-> <<>>, functionmap |-> NoFunctions]

\* CodeBlockGenerator.wrap_code_block on the shared builder code_block:
\* [code_block, new_block, exc]; the builder is cleared whatever happens
wrap_code_block(code_block, program_name, source_code_str, funcmap) ==
    LET Reduced(b, red) ==
            IF red.err # ""
            THEN [code_block |-> clear([b EXCEPT !.outer_block = red.block]),
                  new_block |-> NoBlock, exc |-> red.err]
            ELSE [code_block |-> clear([b EXCEPT !.outer_block = red.block]),
                  new_block |-> NewBlock(program_name, funcmap,
                                         [b EXCEPT !.outer_block = red.block]),
                  exc |-> ""]
        Parsed(r) ==
            IF r.fatal # ""
            THEN [code_block |-> clear(r.b), new_block |-> NoBlock, exc |-> r.fatal]
            ELSE IF ~r.ok
            THEN [code_block |-> clear(r.b), new_block |-> NoBlock, exc |-> "ParseException"]
            ELSE Reduced(r.b, reduceBlock(r.b.outer_block))
    IN  Parsed(parseString(source_code_str,
                           IF DOMAIN funcmap # {} THEN addToFuncMap(code_block, funcmap)
                           ELSE code_block))

\* CodeBlock.load: the compiled functions and run() go to the module;
\* [module, exc]
load(new_block) ==
    LET fm == new_block.functionmap
        compiled == {f \in DOMAIN fm : fm[f].compiled}
        Loaded(exec_code) ==
            [module |-> [functions |-> [f \in compiled |-> fm[f]],
                         run_defined |-> Len(exec_code.lines) > 0,
                         run |-> exec_code.lines],
             exc |-> IF exec_code.err # "" THEN exec_code.err
                     ELSE IF ~PySyntaxOK(exec_code.lines) THEN "SyntaxError"
                     ELSE ""]
    IN  Loaded(toPython(new_block.outer_block, fm))

\* ------------------------------------------------------------------------
\* LanguageEngine
\* ------------------------------------------------------------------------
\* LanguageEngine.__init__: the built-in functions
EngineFunctionmap ==
    ("distance" :> FuncEntry(<<"start", "end">>,
        <<TagItem("_start"), TagItem("_end"), TagItem("operator.sub"),
          TagItem("operator.abs"), TagItem("_return")>>))
    @@ ("randint" :> FuncEntry(<<"max">>,
        <<TagItem("0"), TagItem("_max"), TagItem("random.randint"), TagItem("_return")>>))
    @@ ("time" :> FuncEntry(<<>>, <<TagItem("time.time"), TagItem("_return")>>))

\* math.pi and math.e, as the global constants hold them
MathPi == PyFloat(355, 113)
MathE == PyFloat(193, 71)
InitialGlobals == setConstant(setConstant(SymbolTable(EmptyDict), "pi", MathPi), "e", MathE)

VARIABLES
    code_blocks,          \* LanguageEngine.code_blocks: name -> loaded block
    local_tables,         \* LanguageEngine.local_tables: name -> dict
    global_symbol_table,  \* LanguageEngine.global_symbol_table
    functionmap,          \* LanguageEngine.functionmap
    code_block,           \* CodeBlockGenerator.code_block, the shared builder
    exec,                 \* the execution in progress, with the caller's local symbols
    last,                 \* the last call of the engine's interface and how it ended
    probe                 \* inputs and results of the function under study

vars == <<code_blocks, local_tables, global_symbol_table, functionmap, code_block,
          exec, last, probe>>

NoBlocks ==
    [name \in {} |-> [block |-> NoBlock,
                      module |-> [functions |-> NoFunctions, run_defined |-> FALSE,
                                  run |-> <<>>]]]
NoTables == [name \in {} |-> EmptyDict]

\* a call of the engine's interface: operation, block name, the source or
\* local symbols passed, the exception raised ("" if none), whether
\* wrap_code_block was called, and the names under which a compilation has
\* failed since they were last unregistered
NoSource == <<>>
Call(op, name, src, arg, exc, compiled, failed) ==
    [op |-> op, name |-> name, src |-> src, arg |-> arg, exc |-> exc,
     compiled |-> compiled, failed |-> failed]

EngineInit ==
    /\ code_blocks = NoBlocks
    /\ local_tables = NoTables
    /\ global_symbol_table = InitialGlobals
    /\ functionmap = EngineFunctionmap
    /\ code_block = ClearedBuilder
    /\ exec = Idle
    /\ last = Call("init", "", NoSource, EmptyDict, "", FALSE, {})

IsRegisteredNever(blocks, block_name) == FALSE

\* register_code_block: block_name in self.code_blocks.keys()
IsRegistered(blocks, block_name) == block_name \in DOMAIN blocks

StoredBeforeLoad(wrap_exc, load_exc) == wrap_exc = ""

\* register_code_block stores the block after wrap_code_block and load
\* returned without an exception
Stored(wrap_exc, load_exc) == wrap_exc = "" /\ load_exc = ""

\* LanguageEngine.register_code_block
register_code_block(block_name, code_string) ==
    /\ exec.status # "running"
    /\ IF IsRegistered(code_blocks, block_name)
       THEN /\ last' = Call("register", block_name, code_string, EmptyDict,
                            "LanguageEngineException", FALSE, last.failed)
            /\ UNCHANGED <<code_blocks, code_block>>
       ELSE LET Loaded(w, l) ==
                    LET exc == IF w.exc # "" THEN w.exc ELSE l.exc
                    IN  /\ code_block' = w.code_block
                        /\ last' = Call("register", block_name, code_string, EmptyDict, exc,
                                        TRUE,
                                        IF exc # "" THEN last.failed \cup {block_name}
                                        ELSE last.failed)
                        /\ IF Stored(w.exc, l.exc)
                           THEN code_blocks' = (block_name :> [block |-> w.new_block,
                                                               module |-> l.module])
                                               @@ code_blocks
                           ELSE UNCHANGED code_blocks
                Wrapped(w) == Loaded(w, load(w.new_block))
            IN  Wrapped(wrap_code_block(code_block, block_name, code_string, functionmap))
    /\ exec' = Idle
    /\ UNCHANGED <<local_tables, global_symbol_table, functionmap, probe>>

IsUnknownNever(blocks, block_name) == FALSE

\* execute_code_block: not block_name in self.code_blocks.keys()
IsUnknown(blocks, block_name) == block_name \notin DOMAIN blocks

\* lines 1027-1030: non-empty local symbols are merged into the block's
\* entry of local_tables
MergeLocals(tables, block_name, local_symbol_table) ==
    IF DOMAIN local_symbol_table # {}
    THEN (block_name :> (local_symbol_table @@
                         (IF block_name \in DOMAIN tables THEN tables[block_name]
                          ELSE EmptyDict)))
         @@ tables
    ELSE tables

\* line 1031-1032: the local symbol table that run() is given
RunLocals(tables, block_name, local_symbol_table) == local_symbol_table

\* the module of the block has a run attribute
HasRun(blocks, block_name) ==
    block_name \in DOMAIN blocks /\ blocks[block_name].module.run_defined

\* LanguageEngine.execute_code_block, up to the call of run()
execute_code_block(block_name, local_symbol_table) ==
    /\ exec.status # "running"
    /\ IF IsUnknown(code_blocks, block_name)
       THEN /\ last' = Call("execute", block_name, NoSource, local_symbol_table,
                            "LanguageEngineException", FALSE, last.failed)
            /\ exec' = Idle
            /\ UNCHANGED local_tables
       ELSE /\ local_tables' = MergeLocals(local_tables, block_name, local_symbol_table)
            /\ IF HasRun(code_blocks, block_name)
               THEN /\ exec' = [status |-> "running", block |-> block_name,
                                stack |-> <<Frame("", EmptyDict)>>,
                                locals |-> RunLocals(local_tables', block_name,
                                                     local_symbol_table),
                                err |-> ""]
                    /\ last' = Call("execute", block_name, NoSource, local_symbol_table,
                                    "", FALSE, last.failed)
               ELSE /\ exec' = [Idle EXCEPT !.status = "raised", !.block = block_name,
                                            !.locals = local_symbol_table,
                                            !.err = "AttributeError"]
                    /\ last' = Call("execute", block_name, NoSource, local_symbol_table,
                                    "AttributeError", FALSE, last.failed)
    /\ UNCHANGED <<code_blocks, global_symbol_table, functionmap, code_block, probe>>

\* frames of generated code beyond this depth are not explored
MaxFrames == 104

\* the generated code of the executing block runs on
ExecStep ==
    /\ exec.status = "running"
    /\ Len(exec.stack) <= MaxFrames
    /\ LET Stepped(r) ==
               /\ exec' = r.exec
               /\ global_symbol_table' = r.globals
               /\ last' = IF r.exec.status = "raised" THEN [last EXCEPT !.exc = r.exec.err]
                          ELSE last
       IN  Stepped(StepExec(exec, global_symbol_table, code_blocks[exec.block].module))
    /\ UNCHANGED <<code_blocks, local_tables, functionmap, code_block, probe>>

RemoveEveryBlock(blocks, block_name) == NoBlocks

\* del(self.code_blocks[block_name])
RemoveNoBlock(blocks, block_name) == blocks

RemoveBlock(blocks, block_name) ==
    [name \in DOMAIN blocks \ {block_name} |-> blocks[name]]

\* LanguageEngine.unregister_code_block
unregister_code_block(block_name) ==
    /\ exec.status # "running"
    /\ code_blocks' = IF block_name \in DOMAIN code_blocks
                      THEN RemoveBlock(code_blocks, block_name) ELSE code_blocks
    /\ last' = Call("unregister", block_name, NoSource, EmptyDict, "", FALSE,
                    last.failed \ {block_name})
    /\ exec' = Idle
    /\ UNCHANGED <<local_tables, global_symbol_table, functionmap, code_block, probe>>

\* ---------------------------------------------------------------------
\* The engine's interface, driven by a host
\* ---------------------------------------------------------------------

BlockNames == {"b1", "b2"}

SrcAssign == <<"x", "=", "5">>
SrcCopy == <<"x", "=", "y">>
SrcGlobal == <<"global", "a", "=", "2">>
SrcNoOperand == <<"x", "=", "+">>
SrcUnknownCall == <<"x", "=", "g", "(", "1", ")">>
SrcDivZero == <<"x", "=", "1", "/", "0">>
SrcBareFunction == <<"x", "=", "randint">>

EngineSources ==
    {SrcAssign, SrcCopy, SrcGlobal, SrcNoOperand, SrcUnknownCall, SrcDivZero, SrcBareFunction}

\* the sources that a builder in its constructed state compiles and loads
ValidSources ==
    {src \in EngineSources :
        LET Loads(w) == w.exc = "" /\ load(w.new_block).exc = ""
        IN  Loads(wrap_code_block(ClearedBuilder, "b", src, EngineFunctionmap))}

MaxLocal == 2
LocalInputs == {EmptyDict} \cup {("y" :> PyInt(v)) : v \in 1..MaxLocal}

Init == EngineInit /\ probe = 0

Next ==
    \/ \E block_name \in BlockNames, code_string \in EngineSources :
          register_code_block(block_name, code_string)
    \/ \E block_name \in BlockNames, local_symbol_table \in LocalInputs :
          execute_code_block(block_name, local_symbol_table)
    \/ ExecStep
    \/ \E block_name \in BlockNames : unregister_code_block(block_name)

Spec == Init /\ [][Next]_vars

\* the step is a call of the named operation of the engine's interface
CallStep(op) == exec.status # "running" /\ last'.op = op

EngineUnchanged ==
    UNCHANGED <<code_blocks, local_tables, global_symbol_table, functionmap, code_block>>

\* C1: register_code_block under a name that is already registered raises
\* LanguageEngineException, starts no compilation, and leaves the unit stored
\* under the name, the local tables, the global table and the function table
\* as they were.
C1_DuplicateRegisterFails ==
    [][(CallStep("register") /\ last'.name \in DOMAIN code_blocks)
        => /\ last'.exc = "LanguageEngineException"
           /\ ~last'.compiled
           /\ EngineUnchanged]_vars

C1_Witness ==
    /\ last.op = "register"
    /\ last.exc = "LanguageEngineException"
    /\ last.name \in DOMAIN code_blocks
    /\ last.src \in ValidSources
    /\ code_blocks[last.name].module.run # load(wrap_code_block(ClearedBuilder, "b", last.src,
                                                 EngineFunctionmap).new_block).module.run

\* C2: execute_code_block under a name that is not registered raises
\* LanguageEngineException, runs no compiled code, and changes neither the
\* local tables nor the global table nor the registry.
C2_ExecuteUnknownFails ==
    [][(CallStep("execute") /\ last'.name \notin DOMAIN code_blocks)
        => /\ last'.exc = "LanguageEngineException"
           /\ exec'.status = "idle"
           /\ EngineUnchanged]_vars

C2_Witness ==
    /\ last.op = "execute"
    /\ last.exc = "LanguageEngineException"
    /\ last.name \notin DOMAIN code_blocks
    /\ DOMAIN last.arg # {}
    /\ DOMAIN code_blocks # {}

\* the block's top-level code is the single assignment of the literal v to
\* the local variable name
AssignsLocal(module, name, v) ==
    /\ Len(module.run) = 1
    /\ module.run[1].code = <<Lit(PyInt(v)), Ins("update", name, 0)>>

\* C3: after a block whose source is "x = 5" has run with empty local
\* symbols, the value of x read from the engine's persistent local table of
\* that block is 5.
C3_LocalPersists ==
    (/\ exec.status = "done"
     /\ AssignsLocal(code_blocks[exec.block].module, "x", 5)
     /\ last.arg = EmptyDict)
    => /\ exec.block \in DOMAIN local_tables
       /\ "x" \in DOMAIN local_tables[exec.block]
       /\ local_tables[exec.block]["x"] = PyInt(5)

\* the block's top-level code copies the local variable from to the local
\* variable to
CopiesLocal(module, from, to) ==
    /\ Len(module.run) = 1
    /\ module.run[1].code = <<Ins("get", from, 0), Ins("update", to, 0)>>

\* C4: a run of a block reads its local symbols from the block's persistent
\* local table: a symbol supplied in an earlier execute is read by a later
\* execute that does not supply it.
C4_RunsOnPersistentTable ==
    (/\ exec.status = "done"
     /\ CopiesLocal(code_blocks[exec.block].module, "y", "x")
     /\ exec.block \in DOMAIN local_tables
     /\ "y" \in DOMAIN local_tables[exec.block])
    => /\ "x" \in DOMAIN exec.locals
       /\ exec.locals["x"] = local_tables[exec.block]["y"]

\* C5: a register_code_block that fails in parsing, folding or code
\* generation stores nothing under the name, and a register_code_block of
\* a valid source under a name that is not registered succeeds, whatever
\* failed before it.
C5_FailedCompileStoresNothing ==
    [][/\ (CallStep("register") /\ last'.compiled /\ last'.exc # "")
          => /\ last'.name \notin DOMAIN code_blocks'
             /\ code_blocks' = code_blocks
       /\ (CallStep("register") /\ last'.name \notin DOMAIN code_blocks
                                /\ last'.src \in ValidSources)
          => /\ last'.exc = ""
             /\ last'.name \in DOMAIN code_blocks']_vars

C5_Witness ==
    /\ last.op = "register"
    /\ last.exc = ""
    /\ last.name \in DOMAIN code_blocks
    /\ last.name \in last.failed

\* C6: a registered unit stays stored and unchanged until unregister is
\* called with its name; after unregister the name is not registered, a
\* following execute of it fails and a following register of a valid source
\* succeeds; unregister of a name that is not registered changes nothing
\* and raises nothing.
C6_RegistryLifecycle ==
    [][/\ \A name \in DOMAIN code_blocks :
             \/ CallStep("unregister") /\ last'.name = name
             \/ name \in DOMAIN code_blocks' /\ code_blocks'[name] = code_blocks[name]
       /\ CallStep("unregister")
          => /\ last'.name \notin DOMAIN code_blocks'
             /\ last'.exc = ""
             /\ last'.name \notin DOMAIN code_blocks => EngineUnchanged
       /\ (last.op = "unregister" /\ CallStep("execute") /\ last'.name = last.name)
          => last'.exc = "LanguageEngineException"
       /\ (last.op = "unregister" /\ CallStep("register") /\ last'.name = last.name
                                  /\ last'.src \in ValidSources)
          => last'.exc = "" /\ last'.name \in DOMAIN code_blocks']_vars

C6_Witness ==
    /\ last.op = "unregister"
    /\ last.name \notin DOMAIN code_blocks
    /\ DOMAIN code_blocks # {}
    /\ last.name \in DOMAIN local_tables

\* ---------------------------------------------------------------------
\* Recursive functions
\* ---------------------------------------------------------------------

RecSelf == <<"function", "f", "(", "void", ")", "{", "return", "f", "(", ")", "}",
             "x", "=", "f", "(", ")">>
RecParam == <<"function", "f", "(", "number", "n", ")", "{", "return", "f", "(", "n", ")", "}",
              "x", "=", "f", "(", "1", ")">>
RecAssign == <<"function", "f", "(", "void", ")", "{", "y", "=", "f", "(", ")", "}",
               "x", "=", "f", "(", ")">>
RecOther == <<"function", "f", "(", "void", ")", "{", "return", "1", "}",
              "function", "g", "(", "void", ")", "{", "return", "f", "(", ")", "+", "f", "(", ")", "}",
              "x", "=", "g", "(", ")">>
RecCond == <<"function", "f", "(", "number", "n", ")", "{",
             "if", "(", "n", ">", "0", ")", "{", "y", "=", "f", "(", "n", "-", "1", ")", "}",
             "return", "n", "}",
             "x", "=", "f", "(", "y", ")">>

RecSources == {RecSelf, RecParam, RecAssign, RecOther, RecCond}

InitRec == EngineInit /\ probe = 0

NextRec ==
    \/ \E code_string \in RecSources : register_code_block("b1", code_string)
    \/ \E local_symbol_table \in LocalInputs : execute_code_block("b1", local_symbol_table)
    \/ ExecStep
    \/ unregister_code_block("b1")

SpecRec == InitRec /\ [][NextRec]_vars

\* the depth counter of frame i of the running execution
CountOf(i) == exec.stack[i].env["count"].n

\* the line of generated code has a call of the user function f that no
\* condition guards
CallsAlways(pyline, f) ==
    /\ pyline.kw = ""
    /\ \E i \in 1..Len(pyline.code) : pyline.code[i].k = "call" /\ pyline.code[i].s = f
    /\ \A i \in 1..Len(pyline.code) : pyline.code[i].k \notin {"and", "or"}

\* the functions of module whose body starts with a call of themselves
SelfCalling(module) ==
    {f \in DOMAIN module.functions :
        LET lines == module.functions[f].lines
        IN  /\ Len(lines) > Len(GuardLines)
            /\ lines[Len(GuardLines) + 1].ind = 2
            /\ CallsAlways(lines[Len(GuardLines) + 1], f)}

\* C7: a function called from the top-level code has depth counter 0, one
\* called from a function body has the caller's counter plus one; no
\* function body runs with a counter above 100 and no frame has a counter
\* above 101; an execution that calls a function which calls itself
\* unconditionally ends in the call-depth failure.
C7_RecursionGuard ==
    /\ exec.status = "running" =>
          \A i \in 2..Len(exec.stack) :
             /\ exec.stack[i].unit # ""
             /\ CountOf(i) = IF exec.stack[i - 1].unit = "" THEN 0 ELSE CountOf(i - 1) + 1
             /\ CountOf(i) <= DepthCeiling + 1
             /\ exec.stack[i].pc > Len(GuardLines) => CountOf(i) <= DepthCeiling
    /\ (/\ exec.status \in {"done", "raised"}
        /\ \E f \in SelfCalling(code_blocks[exec.block].module) :
              CallsAlways(code_blocks[exec.block].module.run[1], f))
       => exec.status = "raised" /\ exec.err = "CodeBlockRuntimeError"

C7_Witness ==
    /\ exec.status = "running"
    /\ Len(exec.stack) = DepthCeiling + 3
    /\ CountOf(Len(exec.stack)) = DepthCeiling + 1
    /\ exec.stack[Len(exec.stack)].pc = Len(GuardLines)
    /\ "n" \in DOMAIN exec.stack[Len(exec.stack)].env

\* ---------------------------------------------------------------------
\* The folder on postfix token sequences
\* ---------------------------------------------------------------------

MaxLen == 4
MaxFoldLit == 2

FoldTokens ==
    {NumTok(PyInt(v)) : v \in 0..MaxFoldLit}
    \cup {StrTok(s) : s \in {"operator.add", "operator.truediv", "operator.not_",
                             "unary -", "_a"}}

FoldLines == UNION {[1..len -> FoldTokens] : len \in 1..MaxLen}

NoFold == [line |-> <<>>, err |-> ""]

\* a block as the builder leaves it for an if / else with an if / else nested
\* in the first branch, every statement and condition being code_line
NestedBlock(code_line) ==
    << LineItem(code_line),
       TagItem("_if"),
       BlockItem(<< LineItem(code_line), LineItem(code_line),
                    TagItem("_if"), BlockItem(<< LineItem(code_line), LineItem(code_line) >>),
                    TagItem("_else"), BlockItem(<< LineItem(code_line) >>) >>),
       TagItem("_else"),
       BlockItem(<< LineItem(code_line) >>) >>

\* the lines of a block, those of the nested blocks included
RECURSIVE AllLines(_)
AllLines(items) ==
    IF items = <<>> THEN <<>>
    ELSE (CASE Head(items).k = "line" -> <<Head(items).line>>
            [] Head(items).k = "block" -> AllLines(Head(items).block)
            [] OTHER -> <<>>) \o AllLines(Tail(items))

InitFold ==
    /\ EngineInit
    /\ \E code_line \in FoldLines :
          probe = [stage |-> "new", line |-> code_line, once |-> NoFold, twice |-> NoFold,
                   block |-> <<>>, block_err |-> ""]

EngineIdle ==
    UNCHANGED <<code_blocks, local_tables, global_symbol_table, functionmap, code_block,
                exec, last>>

Fold ==
    /\ probe.stage = "new"
    /\ probe' = [probe EXCEPT !.stage = "folded", !.once = reduceLine(probe.line)]
    /\ EngineIdle

FoldAgain ==
    /\ probe.stage = "folded"
    /\ probe.once.err = ""
    /\ probe' = [probe EXCEPT !.stage = "refolded", !.twice = reduceLine(probe.once.line)]
    /\ EngineIdle

FoldBlock ==
    /\ probe.stage = "new"
    /\ LET r == reduceBlock(NestedBlock(probe.line))
       IN  probe' = [probe EXCEPT !.stage = "block", !.block = r.block, !.block_err = r.err]
    /\ EngineIdle

NextFold == Fold \/ FoldAgain \/ FoldBlock

SpecFold == InitFold /\ [][NextFold]_vars

IsFolded(code_line) == \A idx \in 1..Len(code_line) : ~Foldable(code_line, idx)

\* C9: reduceLine of any postfix token sequence leaves a sequence with no
\* operator right after as many numbers as it takes and no unary minus right
\* after a number; reduceLine of that sequence changes nothing; reduceBlock
\* leaves every statement and condition of every nested block so.
C9_FoldingReachesFixpoint ==
    /\ probe.stage = "folded" => probe.once.err = "" /\ IsFolded(probe.once.line)
    /\ probe.stage = "refolded" => probe.twice = probe.once
    /\ probe.stage = "block" =>
          /\ probe.block_err = ""
          /\ \A i \in 1..Len(AllLines(probe.block)) : IsFolded(AllLines(probe.block)[i])

\* ---------------------------------------------------------------------
\* One statement through the whole pipeline, its operands written as
\* literals and held in variables
\* ---------------------------------------------------------------------

BinaryOperators == {"+", "-", "*", "/", "%", "^", "<", "<=", ">", ">=", "==", "!="}

AddMul == <<"x", "=", "A", "+", "B", "*", "C">>
SubMul == <<"x", "=", "A", "-", "B", "*", "C">>
MulAdd == <<"x", "=", "A", "*", "B", "+", "C">>
MulSub == <<"x", "=", "A", "*", "B", "-", "C">>
PowPow == <<"x", "=", "A", "^", "B", "^", "C">>

Shapes ==
    {<<"x", "=", "A", op, "B">> : op \in BinaryOperators}
    \cup {<<"x", "=", "-", "A">>, <<"x", "=", "not", "A">>}
    \cup {AddMul, SubMul, MulAdd, MulSub, PowPow}

Uses(shape, operand) == \E i \in 1..Len(shape) : shape[i] = operand

\* the statement with the literals in place of the operands
LitSource(shape, a, b, c) ==
    [i \in 1..Len(shape) |->
        CASE shape[i] = "A" -> TextOf(a)
          [] shape[i] = "B" -> TextOf(b)
          [] shape[i] = "C" -> TextOf(c)
          [] OTHER -> shape[i]]

\* the statement on variables, after assignments of the literals to them
VarSource(shape, a, b, c) ==
    <<"a", "=", TextOf(a), "b", "=", TextOf(b), "c", "=", TextOf(c)>>
    \o [i \in 1..Len(shape) |->
          CASE shape[i] = "A" -> "a"
            [] shape[i] = "B" -> "b"
            [] shape[i] = "C" -> "c"
            [] OTHER -> shape[i]]

PipeNames == {"lit", "var"}
NoResult == [status |-> "none", err |-> "", x |-> PyInt(0)]

SourceOf(name, p) ==
    IF name = "lit" THEN LitSource(p.shape, p.a, p.b, p.c)
    ELSE VarSource(p.shape, p.a, p.b, p.c)

InitPipe ==
    /\ EngineInit
    /\ \E shape \in Shapes, a \in 0..MaxLit, b \in 0..MaxLit, c \in 0..MaxLit :
          /\ ~Uses(shape, "B") => b = 0
          /\ ~Uses(shape, "C") => c = 0
          /\ probe = [shape |-> shape, a |-> a, b |-> b, c |-> c,
                      results |-> [name \in PipeNames |-> NoResult]]

Compile(name) ==
    /\ probe.results[name] = NoResult
    /\ name \notin DOMAIN code_blocks \cup last.failed
    /\ register_code_block(name, SourceOf(name, probe))

Run(name) ==
    /\ probe.results[name] = NoResult
    /\ name \in DOMAIN code_blocks
    /\ exec.status = "idle"
    /\ execute_code_block(name, EmptyDict)

\* the host reads x from the local symbols it passed
HostReadsResult ==
    /\ exec.status \in {"done", "raised"}
    /\ probe.results[exec.block] = NoResult
    /\ probe' = [probe EXCEPT !.results[exec.block] =
                    [status |-> exec.status, err |-> exec.err,
                     x |-> IF "x" \in DOMAIN exec.locals THEN exec.locals["x"]
                           ELSE DEFAULT_UNINITIALIZED_VALUE]]
    /\ EngineIdle

\* the host sees the exception of a failed register_code_block
HostSeesFailure ==
    /\ last.op = "register" /\ last.exc # ""
    /\ probe.results[last.name] = NoResult
    /\ probe' = [probe EXCEPT !.results[last.name] =
                    [status |-> "raised", err |-> last.exc, x |-> PyInt(0)]]
    /\ EngineIdle

NextPipe ==
    \/ \E name \in PipeNames : Compile(name)
    \/ \E name \in PipeNames : Run(name)
    \/ ExecStep
    \/ HostReadsResult
    \/ HostSeesFailure

SpecPipe == InitPipe /\ [][NextPipe]_vars

\* C8: a statement on literals, which is folded, computes the value that the
\* same statement computes on variables holding those literals, which is
\* not folded.
C8_FoldingKeepsValue ==
    LET lit == probe.results["lit"]
        var == probe.results["var"]
    IN  (/\ lit.status # "none" /\ var.status # "none"
         /\ lit.err # Unmodelled.t /\ var.err # Unmodelled.t)
        => /\ lit.status = var.status
           /\ lit.status = "done" => NumEq(lit.x, var.x)
           /\ lit.status = "raised" => lit.err = var.err

\* a + (b * c) and the like, for the statements of an additive and a
\* multiplicative operator
Expected(shape, a, b, c) ==
    CASE shape = AddMul -> a + (b * c)
      [] shape = SubMul -> a - (b * c)
      [] shape = MulAdd -> (a * b) + c
      [] shape = MulSub -> (a * b) - c

\* C10: x = a + b * c, compiled and executed, assigns a + (b * c) to x,
\* whether the operands are literals or variables; x = 2 + 3 * 4 assigns 14.
C10_MultiplicationBindsTighter ==
    \A name \in PipeNames :
       (probe.shape \in {AddMul, SubMul, MulAdd, MulSub} /\ probe.results[name] # NoResult)
       => /\ probe.results[name].status = "done"
          /\ probe.results[name].x = PyInt(Expected(probe.shape, probe.a, probe.b, probe.c))

C10_Witness ==
    /\ probe.shape = AddMul
    /\ probe.a = 2 /\ probe.b = 3 /\ probe.c = 4
    /\ probe.results["lit"].status = "done"
    /\ probe.results["lit"].x = PyInt(14)
    /\ probe.results["var"].x = PyInt(14)

\* the postfix sequence stored for the last statement of a registered block
LastPostfix(name) ==
    LET outer_block == code_blocks[name].block.outer_block
        code_line == outer_block[Len(outer_block)].line
    IN  [i \in 1..Len(code_line) |-> code_line[i].s]

\* C11: x = a ^ b ^ c, compiled and executed, assigns a ^ (b ^ c) to x,
\* whether the operands are literals or variables, and the postfix sequence
\* built for it is a b c pow pow; x = 2 ^ 3 ^ 2 assigns 512.
C11_ExponentRightAssociative ==
    probe.shape = PowPow =>
       /\ \A name \in PipeNames :
             (probe.results[name] # NoResult /\ probe.results[name].err # Unmodelled.t)
             => /\ probe.results[name].status = "done"
                /\ NumEq(probe.results[name].x,
                         PyInt(PowNat(probe.a, PowNat(probe.b, probe.c))))
       /\ "var" \in DOMAIN code_blocks
             => LastPostfix("var") = <<"_x", "_a", "_b", "_c", "math.pow", "math.pow", "=">>

C11_Witness ==
    /\ probe.shape = PowPow
    /\ probe.a = 2 /\ probe.b = 3 /\ probe.c = 2
    /\ probe.results["lit"].status = "done"
    /\ probe.results["var"].status = "done"
    /\ NumEq(probe.results["lit"].x, PyInt(512))
    /\ NumEq(probe.results["var"].x, PyInt(512))
    /\ LastPostfix("var")[5] = "math.pow"

\* ---------------------------------------------------------------------
\* Conditionals: if / elseif* / [else] chains on a and b
\* ---------------------------------------------------------------------
MaxBranches == 3
MaxCondLit == 3
CondOps == {">", "==", "<"}

\* the body of branch i: c = 2 - i (1, 0, -1, ...) and n = n + 1
BodyValue(i) == 2 - i
BodyText(i) ==
    (IF BodyValue(i) < 0 THEN <<"c", "=", "-", TextOf(-BodyValue(i))>>
     ELSE <<"c", "=", TextOf(BodyValue(i))>>)
    \o <<"n", "=", "n", "+", "1">>

\* the branches from the i-th condition on, then the else branch if any
RECURSIVE ChainText(_, _, _)
ChainText(conds, has_else, i) ==
    IF i > Len(conds)
    THEN IF has_else THEN <<"else", "{">> \o BodyText(i) \o <<"}">> ELSE <<>>
    ELSE <<(IF i = 1 THEN "if" ELSE "elseif"), "(", "a", conds[i], "b", ")", "{">>
         \o BodyText(i) \o <<"}">> \o ChainText(conds, has_else, i + 1)

CondInputs ==
    {("a" :> PyInt(a)) @@ ("b" :> PyInt(b)) @@ ("n" :> PyInt(0)) :
        a \in 1..MaxCondLit, b \in 1..MaxCondLit}

InitCond ==
    /\ EngineInit
    /\ \E k \in 1..(MaxBranches - 1), has_else \in BOOLEAN :
          \E conds \in [1..k -> CondOps] :
             probe = [conds |-> conds, has_else |-> has_else]

NextCond ==
    \/ /\ "b1" \notin DOMAIN code_blocks \cup last.failed
       /\ register_code_block("b1", ChainText(probe.conds, probe.has_else, 1))
    \/ /\ "b1" \in DOMAIN code_blocks
       /\ \E local_symbol_table \in CondInputs :
             execute_code_block("b1", local_symbol_table)
    \/ ExecStep

SpecCond == InitCond /\ [][NextCond]_vars

\* the condition a op b
Holds(op, a, b) ==
    CASE op = ">" -> a > b
      [] op = "==" -> a = b
      [] op = "<" -> a < b

\* the branch that is to run: the first whose condition is true, else the
\* else branch (numbered after the conditions), 0 if there is none
BranchToRun(conds, has_else, a, b) ==
    LET true == {i \in 1..Len(conds) : Holds(conds[i], a, b)}
    IN  IF true # {} THEN CHOOSE i \in true : \A j \in true : i <= j
        ELSE IF has_else THEN Len(conds) + 1
        ELSE 0

\* C12: an executed if / elseif* / [else] chain runs the body of the first
\* branch whose condition is true, or the else body when none is, and no
\* other body: exactly one body has run (n = 1) and it was that branch's
\* (c = its value); without a true condition and an else, none has run.
C12_FirstTrueBranchRuns ==
    /\ last.op = "register" => last.exc = ""
    /\ exec.status # "raised"
    /\ exec.status = "done" =>
          LET i == BranchToRun(probe.conds, probe.has_else, last.arg["a"].n, last.arg["b"].n)
          IN  IF i = 0
              THEN exec.locals["n"] = PyInt(0) /\ "c" \notin DOMAIN exec.locals
              ELSE exec.locals["n"] = PyInt(1) /\ exec.locals["c"] = PyInt(BodyValue(i))

C12_Witness ==
    /\ probe.conds = <<">", "==">> /\ probe.has_else
    /\ exec.status = "done"
    /\ last.arg["a"] = PyInt(1) /\ last.arg["b"] = PyInt(2)
    /\ exec.locals["c"] = PyInt(-1)
    /\ exec.locals["n"] = PyInt(1)

\* ---------------------------------------------------------------------
\* Calls: x = f ( arguments ) after the definition of a function f of one
\* parameter
\* ---------------------------------------------------------------------
MaxArgs == 2
DefinesF == <<"function", "f", "(", "number", "n", ")", "{", "return", "n", "}">>
Callees == {"randint", "distance", "time", "f", "g"}
\* an argument: a literal, an identifier, a nested call of no, one or two
\* arguments, or an identifier that is also the name of a function
ArgLiteral == <<"1">>
ArgIdent == <<"a">>
ArgCallNone == <<"time", "(", ")">>
ArgCallOne == <<"randint", "(", "2", ")">>
ArgCallTwo == <<"distance", "(", "1", ",", "2", ")">>
ArgFunctionName == <<"distance">>
ArgForms == {ArgLiteral, ArgIdent, ArgCallNone, ArgCallOne, ArgCallTwo, ArgFunctionName}

RECURSIVE ArgsText(_, _)
ArgsText(args, i) ==
    IF i > Len(args) THEN <<>>
    ELSE (IF i > 1 THEN <<",">> ELSE <<>>) \o args[i] \o ArgsText(args, i + 1)

CallSource(callee, args) ==
    DefinesF \o <<"x", "=", callee, "(">> \o ArgsText(args, 1) \o <<")">>

InitCall ==
    /\ EngineInit
    /\ \E callee \in Callees, k \in 0..MaxArgs :
          \E args \in [1..k -> ArgForms] :
             probe = [callee |-> callee, args |-> args]

NextCall ==
    /\ last.op = "init"
    /\ register_code_block("b1", CallSource(probe.callee, probe.args))

SpecCall == InitCall /\ [][NextCall]_vars

\* the live function-signature table at the call: the built-ins and f
Signatures ==
    [name \in DOMAIN EngineFunctionmap |-> Len(EngineFunctionmap[name].arglist)]
    @@ ("f" :> 1)

UnknownFunction == "Unknown function call"
ArgumentCount == {"Too few arguments to function", "Too many arguments to function"}

\* C13: a call f(arg1, ..., argn) is accepted if and only if f is in the
\* function-signature table and n is f's declared parameter count;
\* otherwise the compilation ends with the unknown-function error or an
\* argument-count error.
C13_CallSiteChecked ==
    last.op = "register" =>
       IF probe.callee \notin DOMAIN Signatures THEN last.exc = UnknownFunction
       ELSE IF Len(probe.args) # Signatures[probe.callee] THEN last.exc \in ArgumentCount
       ELSE last.exc \notin ArgumentCount \cup {UnknownFunction}

\* ---------------------------------------------------------------------
\* Function definitions in the blocks of one engine
\* ---------------------------------------------------------------------
Defines(name) == <<"function", name, "(", "number", "n", ")", "{", "return", "n", "}">>
DefF == Defines("f") \o <<"x", "=", "f", "(", "1", ")">>
DefG == Defines("g") \o <<"x", "=", "g", "(", "1", ")">>
DefTwice == Defines("f") \o Defines("f") \o <<"x", "=", "1">>
DefBoth == Defines("f") \o Defines("g") \o <<"x", "=", "1">>
DefDistance == Defines("distance") \o <<"x", "=", "1">>
DefRandint == Defines("randint") \o <<"x", "=", "1">>
DefTime == Defines("time") \o <<"x", "=", "1">>
DefSources == {DefF, DefG, DefTwice, DefBoth, DefDistance, DefRandint, DefTime}

InitDef == EngineInit /\ probe = 0

NextDef ==
    \/ \E block_name \in BlockNames, code_string \in DefSources :
          register_code_block(block_name, code_string)
    \/ \E block_name \in BlockNames : unregister_code_block(block_name)

SpecDef == InitDef /\ [][NextDef]_vars

\* the user functions of the registered blocks
RegisteredFunctions(blocks) ==
    UNION {DOMAIN blocks[name].module.functions : name \in DOMAIN blocks}

\* the source defines a function under a name that is taken: by a built-in,
\* by an earlier definition of the source, or by a registered block
DefinesTaken(src, blocks) ==
    \E i \in 1..(Len(src) - 1) :
       /\ src[i] = "function"
       /\ \/ src[i + 1] \in DOMAIN EngineFunctionmap
          \/ \E j \in 1..(i - 1) : src[j] = "function" /\ src[j + 1] = src[i + 1]
          \/ src[i + 1] \in RegisteredFunctions(blocks)

Redefinition == "Redefinition of existing function"

\* C14: the compilation of a source that defines a function under a name
\* taken by a built-in, by an earlier definition in the same source, or by
\* a function of a block registered in the same engine, ends with the
\* redefinition error.
C14_FunctionNamesUnique ==
    [][(CallStep("register") /\ last'.compiled /\ DefinesTaken(last'.src, code_blocks))
        => last'.exc = Redefinition]_vars

\* ------------------------------------------------------------------------
\* Symbol table operations
\* ------------------------------------------------------------------------
MaxSymVal == 2
SymNames == {"p", "q"}
SymValues == {PyInt(n) : n \in 1..MaxSymVal}
SymDicts == UNION {[names -> SymValues] : names \in SUBSET SymNames}

\* SymbolTable.__setitem__, the notification: one call of the callback with
\* the name and the new value, made after the store, when the name has no
\* constant and a callback was given to the constructor
setitem_callbacks_when_changed(table, sym_change_callback, item, val) ==
    IF item \notin DOMAIN table.consts /\ sym_change_callback
       /\ SymbolTable_getitem(table, item) # val
    THEN <<[name |-> item, new_value |-> val,
            stored |-> SymbolTable_getitem(SymbolTable_setitem(table, item, val), item)]>>
    ELSE <<>>
setitem_callbacks(table, sym_change_callback, item, val) ==
    IF item \notin DOMAIN table.consts /\ sym_change_callback
    THEN <<[name |-> item, new_value |-> val,
            stored |-> SymbolTable_getitem(SymbolTable_setitem(table, item, val), item)]>>
    ELSE <<>>

\* the operation just made on the table: the table before it, what it
\* returned, the callback's invocations, and for each name the value of the
\* latest setConstant
SymOp(p, op, name, value, table, result, calls, latest) ==
    [sym_change_callback |-> p.sym_change_callback, initial_symbols |-> p.initial_symbols,
     op |-> op, name |-> name, value |-> value, before |-> p.table, table |-> table,
     result |-> result, calls |-> calls, latest |-> latest]

InitSym ==
    /\ EngineInit
    /\ \E initial_symbols \in SymDicts, sym_change_callback \in BOOLEAN :
          probe = [sym_change_callback |-> sym_change_callback,
                   initial_symbols |-> initial_symbols,
                   op |-> "init", name |-> "", value |-> PyInt(0),
                   before |-> SymbolTable(initial_symbols),
                   table |-> SymbolTable(initial_symbols),
                   result |-> PyInt(0), calls |-> <<>>, latest |-> EmptyDict]

\* table[item]
GetItem(item) ==
    /\ probe' = SymOp(probe, "get", item, PyInt(0), probe.table,
                      SymbolTable_getitem(probe.table, item), <<>>, probe.latest)
    /\ UNCHANGED <<code_blocks, local_tables, global_symbol_table, functionmap,
                   code_block, exec, last>>

\* table[item] = val
SetItem(item, val) ==
    /\ probe' = SymOp(probe, "set", item, val,
                      SymbolTable_setitem(probe.table, item, val), PyInt(0),
                      setitem_callbacks(probe.table, probe.sym_change_callback, item, val),
                      probe.latest)
    /\ UNCHANGED <<code_blocks, local_tables, global_symbol_table, functionmap,
                   code_block, exec, last>>

\* table.setConstant(constant_name, constant_value)
SetConstant(constant_name, constant_value) ==
    /\ probe' = SymOp(probe, "setConstant", constant_name, constant_value,
                      setConstant(probe.table, constant_name, constant_value),
                      PyInt(0), <<>>,
                      (constant_name :> constant_value) @@ probe.latest)
    /\ UNCHANGED <<code_blocks, local_tables, global_symbol_table, functionmap,
                   code_block, exec, last>>

NextSym ==
    \/ \E item \in SymNames : GetItem(item)
    \/ \E item \in SymNames, val \in SymValues : SetItem(item, val)
    \/ \E name \in SymNames, val \in SymValues : SetConstant(name, val)

SpecSym == InitSym /\ [][NextSym]_vars

\* C15: a name that has a constant reads as the value of the latest
\* setConstant for it, whatever the variable of that name holds; an item
\* write to such a name changes neither consts nor vars and does not invoke
\* the change callback.
C15_ConstantsShadowAndReadOnly ==
    /\ DOMAIN probe.table.consts = DOMAIN probe.latest
    /\ \A name \in DOMAIN probe.latest :
          SymbolTable_getitem(probe.table, name) = probe.latest[name]
    /\ (probe.op = "get" /\ probe.name \in DOMAIN probe.latest)
          => probe.result = probe.latest[probe.name]
    /\ (probe.op = "set" /\ probe.name \in DOMAIN probe.before.consts)
          => /\ probe.table = probe.before
             /\ probe.calls = <<>>

C15_Witness ==
    /\ probe.op = "get" /\ probe.name = "p"
    /\ probe.sym_change_callback
    /\ "p" \in DOMAIN probe.initial_symbols
    /\ probe.initial_symbols["p"] = PyInt(1)
    /\ "p" \in DOMAIN probe.table.vars /\ probe.table.vars["p"] = PyInt(1)
    /\ "p" \in DOMAIN probe.latest /\ probe.latest["p"] = PyInt(2)
    /\ probe.result = PyInt(2)

\* C16: reading a name that is neither a constant nor a variable returns
\* DEFAULT_UNINITIALIZED_VALUE, that is -sys.maxint - 1, and leaves both
\* namespaces as they were: the read creates no entry.
C16_UnsetReadsSentinel ==
    (/\ probe.op = "get"
     /\ probe.name \notin DOMAIN probe.before.consts
     /\ probe.name \notin DOMAIN probe.before.vars)
    => /\ probe.result = PyInt(-sys_maxint - 1)
       /\ probe.result \notin SymValues
       /\ probe.table.consts = probe.before.consts
       /\ probe.table.vars = probe.before.vars

C16_Witness ==
    /\ probe.op = "get" /\ probe.name = "q"
    /\ DOMAIN probe.before.consts = {"p"}
    /\ DOMAIN probe.before.vars = {"p"}
    /\ probe.result = PyInt(-2147483647 - 1)
    /\ probe.table = probe.before

\* C17: the constant and the variable namespace are disjoint: after
\* construction with initial symbols and any sequence of item writes and
\* setConstant calls, no name is a key of both consts and vars.
C17_NamespacesDisjoint ==
    DOMAIN probe.table.consts \cap DOMAIN probe.table.vars = {}

\* C18: when a change callback is set, every item write to a name that has
\* no constant stores the value and then invokes the callback exactly once
\* with the name and the new value, also when the new value equals the old
\* one; reads, setConstant calls and writes to constant names never invoke
\* it.
C18_ChangeNotification ==
    /\ (/\ probe.op = "set"
        /\ probe.sym_change_callback
        /\ probe.name \notin DOMAIN probe.before.consts)
       => /\ probe.table.vars = (probe.name :> probe.value) @@ probe.before.vars
          /\ probe.table.consts = probe.before.consts
          /\ probe.calls = <<[name |-> probe.name, new_value |-> probe.value,
                              stored |-> probe.value]>>
    /\ (\/ probe.op \in {"init", "get", "setConstant"}
        \/ probe.name \in DOMAIN probe.before.consts
        \/ ~probe.sym_change_callback)
       => probe.calls = <<>>

C18_Witness ==
    /\ probe.op = "set" /\ probe.name = "p" /\ probe.value = PyInt(2)
    /\ probe.sym_change_callback
    /\ DOMAIN probe.before.consts = {"q"}
    /\ "p" \in DOMAIN probe.before.vars /\ probe.before.vars["p"] = PyInt(2)
    /\ probe.table = probe.before
    /\ Len(probe.calls) = 1
    /\ probe.calls[1].name = "p" /\ probe.calls[1].new_value = PyInt(2)

\* ------------------------------------------------------------------------
\* Generator stack
\* ------------------------------------------------------------------------
StackUnderflow == "CodeBlockException: Stack underflow"
StackOverflow == "CodeBlockException: Stack overflow"

\* C19: no source that the grammar recognizes produces a stack underflow or
\* a stack overflow in the code generator, also when it uses a name of the
\* function table as a bare identifier: a register_code_block that got as
\* far as compiling never ends with either error.
C19_RecognizedSourceAssembles ==
    (last.op = "register" /\ last.compiled)
    => last.exc \notin {StackUnderflow, StackOverflow}

\* postfix sequences given to toPythonLine outside a function, with the
\* engine's function table
MaxPostfix == 3
PostfixTokens ==
    {NumTok(PyInt(1)), StrTok("_x"), StrTok("operator.add"), StrTok("operator.not_"),
     StrTok("unary -"), StrTok("and"), StrTok("="), StrTok("_return"), StrTok("randint")}
\* the lines of a block are not empty, and a line that ends with "=" starts
\* with the symbol assigned (pushAssignment)
PostfixLines ==
    {code_line \in UNION {[1..n -> PostfixTokens] : n \in 1..MaxPostfix} :
        code_line[Len(code_line)] = StrTok("=") => code_line[1] = StrTok("_x")}
NotGenerated == [code |-> <<>>, err |-> "not generated"]

InitGen ==
    /\ EngineInit
    /\ \E code_line \in PostfixLines :
          probe = [code_line |-> code_line, result |-> NotGenerated]

\* self.toPythonLine(code_line)
Generate ==
    /\ probe.result = NotGenerated
    /\ probe' = [probe EXCEPT !.result = toPythonLine(probe.code_line, "", EngineFunctionmap)]
    /\ UNCHANGED <<code_blocks, local_tables, global_symbol_table, functionmap,
                   code_block, exec, last>>

NextGen == Generate

SpecGen == InitGen /\ [][NextGen]_vars

\* the operands a postfix token takes from the stack; every token leaves
\* one value
Operands(tok) ==
    IF tok.k = "num" THEN 0
    ELSE IF tok.s \in {"operator.add", "and"} THEN 2
    ELSE IF tok.s \in {"operator.not_", "unary -", "=", "_return", "randint"} THEN 1
    ELSE 0

\* the number of residual values of code_line from token i on with depth
\* values on the stack, -1 if a token finds too few operands; the statement
\* ends at "=" or "return"
RECURSIVE Residuals(_, _, _)
Residuals(code_line, i, depth) ==
    IF i > Len(code_line) THEN depth
    ELSE IF depth < Operands(code_line[i]) THEN -1
    ELSE IF code_line[i].s \in {"=", "_return"} THEN depth
    ELSE Residuals(code_line, i + 1, depth - Operands(code_line[i]) + 1)

\* an assignment's first token is the assignee
IsAssignment(code_line) ==
    /\ Len(code_line) > 0
    /\ code_line[Len(code_line)] = StrTok("=")
    /\ code_line[1] = StrTok("_x")
ResidualsOf(code_line) ==
    Residuals(code_line, IF IsAssignment(code_line) THEN 2 ELSE 1, 0)

MaxBoolLit == 2
AndCompare == <<"x", "=", "a", "<", "b", "and", "c", "<", "d">>
NotOperand == <<"x", "=", "not", "a">>
AndNotOperand == <<"x", "=", "a", "and", "not", "b">>
MinusOperand == <<"x", "=", "-", "a">>
MinusMinusOperand == <<"x", "=", "-", "-", "a">>
MinusComparison == <<"x", "=", "-", "(", "a", "<", "b", ")">>
BoolSources ==
    {AndCompare, NotOperand, AndNotOperand, MinusOperand, MinusMinusOperand,
     MinusComparison}

\* the local symbols the host passes: a and b are read by every source, c
\* and d by the first only
BoolInputs ==
    {("a" :> PyInt(a)) @@ ("b" :> PyInt(b)) @@ ("c" :> PyInt(c)) @@ ("d" :> PyInt(d)) :
        a \in 0..MaxBoolLit, b \in 0..MaxBoolLit, c \in 0..MaxBoolLit, d \in 0..MaxBoolLit}

InitBool ==
    /\ EngineInit
    /\ \E src \in BoolSources : probe = [src |-> src]

NextBool ==
    \/ /\ "b1" \notin DOMAIN code_blocks \cup last.failed
       /\ register_code_block("b1", probe.src)
    \/ /\ "b1" \in DOMAIN code_blocks
       /\ \E local_symbol_table \in BoolInputs :
             /\ (probe.src # AndCompare
                    => local_symbol_table["c"] = PyInt(0) /\ local_symbol_table["d"] = PyInt(0))
             /\ execute_code_block("b1", local_symbol_table)
    \/ ExecStep

SpecBool == InitBool /\ [][NextBool]_vars

\* the value of x after a finished execution
Executed(src) ==
    /\ probe.src = src
    /\ exec.status = "done"
    /\ "x" \in DOMAIN exec.locals

\* C21: comparison operators bind tighter than and/or: the postfix sequence
\* built for a < b and c < d is a b lt c d lt and, and the statement
\* evaluates as (a < b) and (c < d) for all values of a, b, c, d.
C21_ComparisonBindsTighter ==
    probe.src = AndCompare =>
       /\ last.op = "register" => last.exc = ""
       /\ exec.status # "raised"
       /\ "b1" \in DOMAIN code_blocks
             => LastPostfix("b1") = <<"_x", "_a", "_b", "operator.lt", "_c", "_d",
                                      "operator.lt", "_and", "=">>
       /\ Executed(AndCompare)
             => Truthy(exec.locals["x"])
                = (last.arg["a"].n < last.arg["b"].n /\ last.arg["c"].n < last.arg["d"].n)

\* C22: a leading not is compiled into a logical negation: for x = not a and
\* x = a and not b the postfix sequence contains a negation operator applied
\* to the operand after not, and the executed result is the negation of that
\* operand's truth value.
C22_NotNegates ==
    /\ probe.src \in {NotOperand, AndNotOperand} =>
          /\ last.op = "register" => last.exc = ""
          /\ exec.status # "raised"
          /\ "b1" \in DOMAIN code_blocks
                => \E i \in 1..Len(LastPostfix("b1")) : LastPostfix("b1")[i] = "operator.not_"
    /\ Executed(NotOperand)
          => Truthy(exec.locals["x"]) = ~(last.arg["a"].n # 0)
    /\ Executed(AndNotOperand)
          => Truthy(exec.locals["x"]) = (last.arg["a"].n # 0 /\ ~(last.arg["b"].n # 0))

\* C28: unary minus negates its operand whatever the operand is: x = - a
\* assigns -a, x = - - a assigns a, and x = - ( a < b ), whose operand is
\* bool-tagged, assigns the negated value of the comparison.
C28_UnaryMinusNegates ==
    /\ probe.src \in {MinusOperand, MinusMinusOperand, MinusComparison} =>
          /\ last.op = "register" => last.exc = ""
          /\ exec.status # "raised"
    /\ Executed(MinusOperand) => NumEq(exec.locals["x"], PyInt(-last.arg["a"].n))
    /\ Executed(MinusMinusOperand) => NumEq(exec.locals["x"], last.arg["a"])
    /\ Executed(MinusComparison)
          => NumEq(exec.locals["x"],
                   PyInt(IF last.arg["a"].n < last.arg["b"].n THEN -1 ELSE 0))

\* ------------------------------------------------------------------------
\* Successive compilations on the shared builder
\* ------------------------------------------------------------------------
IfBlock == <<"if", "(", "a", ")", "{", "x", "=", "1", "}">>
\* parse failures that abandon an open elseif, an open function definition,
\* and an open if inside an open function definition
IsoAbandonedElseif == IfBlock \o <<"elseif", "+">>
IsoAbandonedFunction == <<"function", "f", "(", "number", "n", ")", "{", "return", "n">>
IsoAbandonedBoth ==
    <<"function", "f", "(", "number", "n", ")", "{", "if", "(", "n", ")", "{", "x", "=">>
IsoSources ==
    {SrcAssign, SrcUnknownCall, IfBlock, DefF, DefG,
     IsoAbandonedElseif, IsoAbandonedFunction, IsoAbandonedBoth}

InitIso == EngineInit /\ probe = 0

NextIso ==
    \/ \E block_name \in BlockNames, code_string \in IsoSources :
          register_code_block(block_name, code_string)
    \/ \E block_name \in BlockNames : unregister_code_block(block_name)

SpecIso == InitIso /\ [][NextIso]_vars

\* the cleared state of the builder
IsCleared(b) ==
    /\ b.scratch = <<>> /\ b.inner_blocks = <<>> /\ b.outer_block = <<>>
    /\ b.inner_block_count = 0
    /\ b.functionmap = NoFunctions
    /\ b.stack = OuterRef /\ b.frame = OuterRef

\* what a builder in its constructed state makes of a source
FreshResult(block_name, code_string) ==
    wrap_code_block(ClearedBuilder, block_name, code_string, EngineFunctionmap)

\* the builder as the parse of a source leaves it, before wrap_code_block
\* clears it
LeftOpen(code_string) ==
    parseString(code_string, addToFuncMap(ClearedBuilder, EngineFunctionmap)).b

\* C23: after any wrap_code_block call, returning or raising, also after a
\* parse failure that abandons open conditional or function constructs, the
\* shared builder is in its cleared state, and the block tree and function
\* table of every compilation are those that a fresh builder produces for
\* the source.
C23_CompilationsIsolated ==
    /\ IsCleared(code_block)
    /\ (last.op = "register" /\ last.compiled) =>
          /\ last.exc # "" => last.exc = FreshResult(last.name, last.src).exc
          /\ last.exc = "" =>
                /\ FreshResult(last.name, last.src).exc = ""
                /\ code_blocks[last.name].block = FreshResult(last.name, last.src).new_block

C23_Witness ==
    /\ last.op = "register" /\ last.name = "b2" /\ last.src = DefF /\ last.exc = ""
    /\ "b1" \notin DOMAIN code_blocks
    /\ "b1" \in last.failed
    /\ LeftOpen(IsoAbandonedBoth).inner_block_count = 1
    /\ LeftOpen(IsoAbandonedBoth).stack = InnerRef(1)
    /\ LeftOpen(IsoAbandonedBoth).frame = FuncRef("f")
    /\ "f" \in DOMAIN LeftOpen(IsoAbandonedBoth).functionmap
    /\ "f" \in DOMAIN code_blocks["b2"].block.functionmap
    /\ IsCleared(code_block)

\* ------------------------------------------------------------------------
\* The builder during recognition
\* ------------------------------------------------------------------------
\* nested conditionals, a conditional inside a function definition, and
\* keywords that follow a closed conditional as identifiers
CurNested ==
    <<"if", "(", "a", ")", "{", "x", "=", "1",
         "if", "(", "b", ")", "{", "y", "=", "2", "}", "else", "{", "y", "=", "3", "}", "}",
      "elseif", "(", "c", ")", "{", "x", "=", "2", "}",
      "else", "{", "x", "=", "3", "}",
      "x", "=", "4">>
CurFunction ==
    <<"function", "f", "(", "number", "n", ")", "{",
         "if", "(", "n", ")", "{", "x", "=", "1", "}", "else", "{", "x", "=", "2", "}",
         "return", "n", "}",
      "x", "=", "f", "(", "1", ")">>
CurKeyword == <<"if", "(", "a", ")", "{", "x", "=", "1", "}", "elseif", "=", "3">>
CurFunctionKeyword ==
    <<"function", "f", "(", "number", "n", ")", "{",
         "if", "(", "n", ")", "{", "x", "=", "1", "}", "else", "=", "2",
         "return", "n", "}",
      "x", "=", "1">>
CurSources == {CurNested, CurFunction, CurKeyword, CurFunctionKeyword}

\* the recognizer applied to the first n tokens of a source: the builder as
\* the callbacks fired so far have left it, and whether the tokens are a
\* complete source
Recognized(src, n) ==
    LET K(r) == [src |-> src, n |-> n, b |-> r.b, ok |-> r.ok /\ r.fatal = ""]
    IN  K(parseString(SubSeq(src, 1, n), addToFuncMap(ClearedBuilder, EngineFunctionmap)))

InitCur ==
    /\ EngineInit
    /\ \E src \in CurSources :
          probe = [src |-> src, n |-> 0,
                   b |-> addToFuncMap(ClearedBuilder, EngineFunctionmap), ok |-> FALSE]

\* the recognizer reads one more token
Recognize ==
    /\ probe.n < Len(probe.src)
    /\ probe' = Recognized(probe.src, probe.n + 1)
    /\ UNCHANGED <<code_blocks, local_tables, global_symbol_table, functionmap,
                   code_block, exec, last>>

NextCur == Recognize

SpecCur == InitCur /\ [][NextCur]_vars

\* C24: in every state reached by the recognition callbacks,
\* inner_block_count equals len(inner_blocks) and the insertion pointer is
\* the innermost open conditional block when one is open, otherwise the
\* current frame; leaving a function definition and finishing a successful
\* parse leave no conditional open and pointer and frame on the top-level
\* block.
C24_CursorDiscipline ==
    /\ probe.b.inner_block_count = Len(probe.b.inner_blocks)
    /\ probe.b.stack = IF probe.b.inner_blocks # <<>>
                       THEN InnerRef(Len(probe.b.inner_blocks))
                       ELSE probe.b.frame
    /\ probe.ok => /\ probe.b.inner_blocks = <<>>
                   /\ probe.b.stack = OuterRef
                   /\ probe.b.frame = OuterRef

\* ------------------------------------------------------------------------
\* Code generation for the shapes of a conditional
\* ------------------------------------------------------------------------
ShapeIfEmpty == <<"if", "(", "a", ")", "{", "}">>
ShapeElseEmpty == IfBlock \o <<"else", "{", "}">>
ShapeElseStatement == IfBlock \o <<"else", "{", "x", "=", "3", "}">>
ShapeIfNested ==
    <<"if", "(", "a", ")", "{", "if", "(", "b", ")", "{", "x", "=", "2", "}", "}">>
ShapeElseNested ==
    IfBlock \o <<"else", "{", "if", "(", "b", ")", "{", "x", "=", "2", "}", "}">>
ShapeSources ==
    {IfBlock, ShapeIfEmpty, ShapeElseEmpty, ShapeElseStatement, ShapeIfNested,
     ShapeElseNested, CurNested}

InitShape == EngineInit /\ probe = 0

NextShape ==
    \/ \E block_name \in BlockNames, code_string \in ShapeSources :
          register_code_block(block_name, code_string)
    \/ \E block_name \in BlockNames : unregister_code_block(block_name)

SpecShape == InitShape /\ [][NextShape]_vars

\* the grammar recognizes the whole source and the builder has its block tree
IsRecognized(code_string) == Recognized(code_string, Len(code_string)).ok

\* C25: for every block tree the builder produces, also with an empty
\* branch body and with an else branch whose body is empty or begins with a
\* nested conditional, code generation succeeds and the generated if / elif
\* / else structure is loaded: the registration of a recognized source ends
\* without an exception and stores the block.
C25_ConditionalShapesGenerate ==
    (last.op = "register" /\ last.compiled /\ IsRecognized(last.src))
    => /\ last.exc = ""
       /\ last.name \in DOMAIN code_blocks

\* ------------------------------------------------------------------------
\* The return value of a function
\* ------------------------------------------------------------------------
MaxRetLit == 2
BodyEmpty == <<>>
BodyAssign == <<"y", "=", "n">>
BodyConditional == <<"if", "(", "n", ")", "{", "y", "=", "1", "}">>
BodyReturn == <<"return", "n">>
BodyAssignReturn == <<"y", "=", "n", "return", "y">>
BodyConditionalReturn == BodyConditional \o <<"return", "n">>
BodyReturnAssign == <<"return", "n", "y", "=", "2">>
BodyReturnConditional == <<"return", "n">> \o BodyConditional
Bodies ==
    {BodyEmpty, BodyAssign, BodyConditional, BodyReturn, BodyAssignReturn,
     BodyConditionalReturn, BodyReturnAssign, BodyReturnConditional}

\* the last top-level statement of the body is a return
EndsInReturn(body) == body \in {BodyReturn, BodyAssignReturn, BodyConditionalReturn}
\* the body reaches a return statement when it is run
ReachesReturn(body) == body \notin {BodyEmpty, BodyAssign, BodyConditional}

RetSource(body) ==
    <<"function", "f", "(", "number", "n", ")", "{">> \o body \o <<"}">>
    \o <<"x", "=", "f", "(", "a", ")">>
RetInputs == {("a" :> PyInt(a)) : a \in 0..MaxRetLit}

InitRet ==
    /\ EngineInit
    /\ \E body \in Bodies : probe = [body |-> body]

NextRet ==
    \/ /\ "b1" \notin DOMAIN code_blocks \cup last.failed
       /\ register_code_block("b1", RetSource(probe.body))
    \/ /\ "b1" \in DOMAIN code_blocks
       /\ \E local_symbol_table \in RetInputs :
             execute_code_block("b1", local_symbol_table)
    \/ ExecStep

SpecRet == InitRet /\ [][NextRet]_vars

\* the generated lines of the function f of the registered block
LinesOfF == code_blocks["b1"].module.functions["f"].lines

\* C26: every compiled function returns a value: when the last top-level
\* statement of the body is not a return, a return of the uninitialized
\* value -sys.maxint - 1 is appended after the body, and a call that
\* reaches no return gets that value; when the last top-level statement is a
\* return, no return is appended.
C26_SyntheticReturn ==
    /\ last.op = "register" => last.exc = ""
    /\ exec.status # "raised"
    /\ "b1" \in DOMAIN code_blocks =>
          /\ EndsInReturn(probe.body)
                => /\ \A i \in 1..Len(LinesOfF) : LinesOfF[i] # SentinelReturn
                   /\ IsReturnLine(LinesOfF[Len(LinesOfF)])
          /\ ~EndsInReturn(probe.body)
                => /\ LinesOfF[Len(LinesOfF)] = SentinelReturn
                   /\ \A i \in 1..(Len(LinesOfF) - 1) : LinesOfF[i] # SentinelReturn
          /\ SentinelReturn.code[1].v = PyInt(-sys_maxint - 1)
    /\ (exec.status = "done" /\ "x" \in DOMAIN exec.locals) =>
          exec.locals["x"] = IF ReachesReturn(probe.body) THEN last.arg["a"]
                             ELSE PyInt(-sys_maxint - 1)

C26_Witness ==
    /\ probe.body = BodyConditional
    /\ exec.status = "done"
    /\ last.arg["a"] = PyInt(1)
    /\ exec.locals["x"] = PyInt(-2147483647 - 1)
    /\ Len(LinesOfF) = Len(GuardLines) + 3
    /\ LinesOfF[Len(LinesOfF)] = SentinelReturn

\* ------------------------------------------------------------------------
\* Two compilations in flight on the class-level builder
\* ------------------------------------------------------------------------
\* the statements of the two sources
RaceStatements ==
    ("b1" :> << <<"x", "=", "1">>, <<"y", "=", "2">> >>)
    @@ ("b2" :> << Defines("f"), <<"x", "=", "3">> >>)
Callers == DOMAIN RaceStatements

RECURSIVE Joined(_)
Joined(statements) ==
    IF statements = <<>> THEN <<>> ELSE Head(statements) \o Joined(Tail(statements))

\* a call of wrap_code_block: where it is, the statements recognized so
\* far, and the block it has made
NotCalled == [at |-> "not called", recognized |-> 0, new_block |-> NoBlock, exc |-> ""]

InitRace ==
    /\ EngineInit
    /\ probe = [calls |-> [t \in Callers |-> NotCalled], interleaved |-> FALSE]

InFlight(call) == call.at \in {"parsing", "parsed", "copied", "raising"}
OtherInFlight(t) == \E u \in Callers \ {t} : InFlight(probe.calls[u])

\* the steps of a call leave the engine as it is
RaceStep(t, call, b) ==
    /\ code_block' = b
    /\ probe' = [probe EXCEPT !.calls[t] = call,
                              !.interleaved = @ \/ OtherInFlight(t)]
    /\ UNCHANGED <<code_blocks, local_tables, global_symbol_table, functionmap, exec, last>>

\* lines 957-960: cls.code_block.addToFuncMap(funcmap); cls.bnf = BNF(cls.code_block)
Enter(t) ==
    /\ probe.calls[t].at = "not called"
    /\ RaceStep(t, [probe.calls[t] EXCEPT !.at = "parsing"],
                addToFuncMap(code_block, functionmap))

\* line 962, the callbacks of the next statement of the source
RecognizeStatement(t) ==
    LET call == probe.calls[t]
        Recognizes(r) ==
            IF r.fatal # "" \/ ~r.ok
            THEN RaceStep(t, [call EXCEPT !.at = "raising",
                                          !.exc = IF r.fatal # "" THEN r.fatal
                                                  ELSE "ParseException"], r.b)
            ELSE RaceStep(t, [call EXCEPT !.recognized = @ + 1,
                                          !.at = IF call.recognized + 1 = Len(RaceStatements[t])
                                                 THEN "parsed" ELSE "parsing"], r.b)
    IN  /\ call.at = "parsing"
        /\ Recognizes(parseString(RaceStatements[t][call.recognized + 1], code_block))

\* lines 963-966: reduce(), the new CodeBlock and copyTo
CopyOut(t) ==
    LET call == probe.calls[t]
        Reduced(red) ==
            IF red.err # ""
            THEN RaceStep(t, [call EXCEPT !.at = "raising", !.exc = red.err],
                          [code_block EXCEPT !.outer_block = red.block])
            ELSE RaceStep(t, [call EXCEPT !.at = "copied",
                                          !.new_block =
                                              NewBlock(t, functionmap,
                                                       [code_block EXCEPT
                                                           !.outer_block = red.block])],
                          [code_block EXCEPT !.outer_block = red.block])
    IN  /\ call.at = "parsed"
        /\ Reduced(reduceBlock(code_block.outer_block))

\* lines 967-968: finally, cls.code_block.clear()
Finally(t) ==
    /\ probe.calls[t].at \in {"copied", "raising"}
    /\ RaceStep(t, [probe.calls[t] EXCEPT !.at = IF @ = "copied" THEN "returned" ELSE "raised"],
                clear(code_block))

NextRace ==
    \/ \E t \in Callers : Enter(t)
    \/ \E t \in Callers : RecognizeStatement(t)
    \/ \E t \in Callers : CopyOut(t)
    \/ \E t \in Callers : Finally(t)

SpecRace == InitRace /\ [][NextRace]_vars

\* the statements of a block
StatementsOf(new_block) == {new_block.outer_block[i] : i \in 1..Len(new_block.outer_block)}

\* the block of a call is the one a builder of its own makes of its source
Intact(t) ==
    /\ probe.calls[t].exc = ""
    /\ probe.calls[t].new_block = FreshResult(t, Joined(RaceStatements[t])).new_block

\* C27: when the calls of wrap_code_block are serialized, every call makes
\* the block of its own source; a call whose block holds a statement or a
\* function of the other source, or lacks one of its own, or which raises,
\* has been interleaved with the other call.
C27_SerializedCallsIntact ==
    \A t \in Callers :
       probe.calls[t].at \in {"copied", "returned", "raised"}
       => (Intact(t) \/ probe.interleaved)

\* both calls have returned, and the block of b1 holds the function and a
\* statement of b2's source and lacks none of its own
C27_Witness ==
    /\ probe.interleaved
    /\ probe.calls["b1"].at = "returned" /\ probe.calls["b2"].at = "returned"
    /\ "f" \in DOMAIN probe.calls["b1"].new_block.functionmap
    /\ "f" \notin DOMAIN FreshResult("b1", Joined(RaceStatements["b1"])).new_block.functionmap
    /\ Len(probe.calls["b1"].new_block.outer_block) = 3
    /\ StatementsOf(FreshResult("b2", Joined(RaceStatements["b2"])).new_block)
          \subseteq StatementsOf(probe.calls["b1"].new_block)

\* C29: unregister_code_block(name) changes only the registry entry of that
\* name: the per-block local tables, the one kept for that name included,
\* the engine's function table and the global symbol table are unchanged,
\* and a later registration under the same name leaves the kept local table
\* in place as well.
C29_UnregisterKeepsTables ==
    [][/\ CallStep("unregister")
          => /\ code_blocks' = [name \in DOMAIN code_blocks \ {last'.name} |->
                                   code_blocks[name]]
             /\ local_tables' = local_tables
             /\ functionmap' = functionmap
             /\ global_symbol_table' = global_symbol_table
       /\ CallStep("register") => local_tables' = local_tables]_vars

\* b1 is registered again after an execution of the unit registered under
\* that name before, and the local table of that unit is still there
C29_Witness ==
    /\ last.op = "register" /\ last.name = "b1" /\ last.exc = ""
    /\ "b1" \in DOMAIN code_blocks
    /\ "b1" \in DOMAIN local_tables
    /\ local_tables["b1"] = ("y" :> PyInt(1))

\* ------------------------------------------------------------------------
\* Blocks that only define functions
\* ------------------------------------------------------------------------
OnlyF == Defines("f")
OnlyFG == Defines("f") \o Defines("g")
LibSources == {OnlyF, OnlyFG, DefF}

InitLib == EngineInit /\ probe = 0

NextLib ==
    \/ \E block_name \in BlockNames, code_string \in LibSources :
          register_code_block(block_name, code_string)
    \/ \E block_name \in BlockNames, local_symbol_table \in LocalInputs :
          execute_code_block(block_name, local_symbol_table)
    \/ ExecStep
    \/ \E block_name \in BlockNames : unregister_code_block(block_name)

SpecLib == InitLib /\ [][NextLib]_vars

\* the registered block has no top-level statement
OnlyDefinitions(block_name) ==
    /\ block_name \in DOMAIN code_blocks
    /\ code_blocks[block_name].block.outer_block = <<>>

\* C30: executing a registered block whose source holds only function
\* definitions completes without raising and changes no symbol table.
C30_NoEntryPointIsNoOp ==
    [][(CallStep("execute") /\ OnlyDefinitions(last'.name))
       => /\ last'.exc = ""
          /\ exec'.status # "raised"
          /\ local_tables' = local_tables
          /\ global_symbol_table' = global_symbol_table]_vars

====
